---- MODULE Spec2Model ----
(***************************************************************************)
(* mango-db: the query core (flat, logic, match, find, project), the      *)
(* Cursor with its joins, and the MangoDB store, as state machines.       *)
(*                                                                         *)
(* JavaScript values are tagged records [t, v]; the tag is what getType   *)
(* returns for the value.  A property name (a JS string) is the sequence  *)
(* of its "."-separated segments: "a.b" is <<"a", "b">>, "a" is <<"a">>,   *)
(* and the empty string is <<>>.  An object is a function from property   *)
(* names to values.  Properties are enumerated in the order of FieldNames. *)
(***************************************************************************)
EXTENDS Integers, Sequences, FiniteSets, TLC

\* a query, a record, the boolean match returned for them and the error it
\* raised ("none" before the call, "null" when it returned)
VARIABLES mQuery, mItem, mOut, mErr

matchVars == <<mQuery, mItem, mOut, mErr>>

\* the arguments of one find call, the state of the call, the positions it
\* returned and the positions of the records match was invoked on, in order
VARIABLES sQuery, sItems, sOptions, sPc, sOut, sVisited

VARIABLES pItem, pProjection, pOut, pSrc

projectVars == <<pItem, pProjection, pOut, pSrc>>

\* a record, and the result of flattening and unflattening it
VARIABLES fItem, fOut

flatVars == <<fItem, fOut>>

\* the cursors by name, the record sequence behind each, and what the caller
\* of the local cursor has seen: the state of its use, the number of its
\* executions and of its configuration calls since the last one, the result of
\* the last execution and, when that one repeated an execution with nothing
\* configured in between, the result of the one before
VARIABLES cursors, cItems, cPhase, cExecs, cConfigs, cOut, cPrevOut

cursorVars == <<cursors, cItems, cPhase, cExecs, cConfigs, cOut, cPrevOut>>

\* the records of a MangoDB and the outcome of the last call on it
VARIABLES data, dbRes

dbVars == <<data, dbRes>>

\* the records of a MangoDB whose caller does not await its insert calls:
\* each call by its position, the items it was given, what it holds while it
\* is suspended at its await, and its error; and the calls suspended, in the
\* order their continuations run
VARIABLES oData, oCalls, oQueue

overlapVars == <<oData, oCalls, oQueue>>

\* the stacks of records of the MangoDB of src/mango-db.js, and the outcome of
\* the last call on it with the items it was given
VARIABLES kData, kRes

stackVars == <<kData, kRes>>

\* a MangoDB with the file it is serialized to: the records of the array
\* #data names, the cursor its caller got from find (with the records of the
\* array the cursor holds, and whether that array is still the one #data
\* names), the content of the file, whether name and path are configured, the
\* serialize call in flight, and the last other call with its result
VARIABLES stData, stCursor, stFile, stConfigured, stWrite, stRes

storeVars == <<stData, stCursor, stFile, stConfigured, stWrite, stRes>>

scanVars == <<sQuery, sItems, sOptions, sPc, sOut, sVisited>>

vars ==
    <<matchVars, scanVars, projectVars, flatVars, cursorVars, dbVars, overlapVars,
      stackVars, storeVars>>

----------------------------------------------------------------------------
(* JavaScript values *)

Undefined == [t |-> "undefined", v |-> 0]
Null == [t |-> "null", v |-> 0]
Num(n) == [t |-> "number", v |-> n]
Str(s) == [t |-> "string", v |-> s]
Bool(b) == [t |-> "boolean", v |-> b]
Obj(f) == [t |-> "Object", v |-> f]
Arr(s) == [t |-> "Array", v |-> s]
\* a pattern, given by the set of the strings it accepts
Rx(S) == [t |-> "RegExp", v |-> S]
\* a Date, given by its time value
DateOf(n) == [t |-> "Date", v |-> n]

EmptyObj == Obj(<<>>)

\* the property name of a field without dots
K(name) == <<name>>

\* typeof value === "object"
TypeofObject(val) == val.t \in {"Object", "Array", "null", "Date", "RegExp"}

\* Object(cur) !== cur
IsPrimitive(val) == val.t \in {"undefined", "null", "number", "string", "boolean"}

\* the truthiness of a value: if (value) ...
Truthy(val) ==
    CASE val.t = "undefined" -> FALSE
      [] val.t = "null" -> FALSE
      [] val.t = "number" -> val.v # 0
      [] val.t = "string" -> val.v # ""
      [] val.t = "boolean" -> val.v
      [] OTHER -> TRUE

\* val1 === val2, where objects are never the same object: every object the
\* matcher compares is a fresh one (a flattened copy against a query)
StrictEq(val1, val2) == IsPrimitive(val1) /\ val1 = val2

\* the largest list or string index that has a property name
MaxIndex == 4

IndexKey(i) == K(ToString(i))

\* the index a property name stands for, -1 when it is no index
IndexOf(key) ==
    IF \E i \in 0..MaxIndex : key = IndexKey(i)
    THEN CHOOSE i \in 0..MaxIndex : key = IndexKey(i)
    ELSE -1

\* Object.keys(val), as a set
ObjectKeys(val) ==
    CASE val.t = "Object" -> DOMAIN val.v
      [] val.t = "Array" -> {IndexKey(i - 1) : i \in 1..Len(val.v)}
      [] val.t = "string" -> {IndexKey(i - 1) : i \in 1..Len(val.v)}
      [] OTHER -> {}

\* val[key]
Prop(val, key) ==
    CASE val.t = "Object" -> IF key \in DOMAIN val.v THEN val.v[key] ELSE Undefined
      [] val.t = "Array" ->
            IF IndexOf(key) >= 0 /\ IndexOf(key) < Len(val.v)
            THEN val.v[IndexOf(key) + 1] ELSE Undefined
      [] val.t = "string" ->
            IF IndexOf(key) >= 0 /\ IndexOf(key) < Len(val.v)
            THEN Str(SubSeq(val.v, IndexOf(key) + 1, IndexOf(key) + 1)) ELSE Undefined
      [] OTHER -> Undefined

\* obj[key] = val
Put(obj, key, val) ==
    Obj([k \in (DOMAIN obj.v) \cup {key} |-> IF k = key THEN val ELSE obj.v[k]])

----------------------------------------------------------------------------
(* methods.js: getType, LOGICS *)

getType(value) == value.t

\* a string operand or value is taken as it is
LengthOfNone(val) == val

\* a string operand or value counts by its length
LengthOf(val) == IF val.t = "string" THEN Num(Len(val.v)) ELSE val

\* the number a relational comparison converts a value to: a list converts
\* through its string, "" for the empty list and the element's for a list of
\* one
IsNumeric(val) ==
    \/ val.t \in {"number", "boolean", "null"}
    \/ val.t = "Array" /\ Len(val.v) = 0
    \/ val.t = "Array" /\ Len(val.v) = 1 /\ val.v[1].t = "number"
ToNumber(val) ==
    CASE val.t = "number" -> val.v
      [] val.t = "boolean" -> IF val.v THEN 1 ELSE 0
      [] val.t = "Array" /\ Len(val.v) = 1 -> val.v[1].v
      [] OTHER -> 0

\* String(val), the string a string method converts its argument to
RECURSIVE JsString(_)
JsString(val) ==
    CASE val.t = "string" -> val.v
      [] val.t = "number" -> ToString(val.v)
      [] val.t = "boolean" -> IF val.v THEN "true" ELSE "false"
      [] val.t = "null" -> "null"
      [] val.t = "undefined" -> "undefined"
      [] val.t = "Array" ->
            IF Len(val.v) = 0 THEN ""
            ELSE IF Len(val.v) = 1
            THEN (IF val.v[1].t \in {"null", "undefined"} THEN "" ELSE JsString(val.v[1]))
            ELSE JsString(Arr(SubSeq(val.v, 1, Len(val.v) - 1))) \o ","
                    \o (IF val.v[Len(val.v)].t \in {"null", "undefined"} THEN ""
                        ELSE JsString(val.v[Len(val.v)]))
      [] OTHER -> "[object Object]"

\* val2 < val1 and val2 <= val1 of JavaScript, false when a side is no number
JsLess(val2, val1) ==
    IsNumeric(val1) /\ IsNumeric(val2) /\ ToNumber(val2) < ToNumber(val1)
JsLessEq(val2, val1) ==
    IsNumeric(val1) /\ IsNumeric(val2) /\ ToNumber(val2) <= ToNumber(val1)

\* str.includes(substr) on strings
Includes(str, substr) ==
    \E i \in 1..(Len(str) + 1) :
        /\ i + Len(substr) - 1 <= Len(str)
        /\ SubSeq(str, i, i + Len(substr) - 1) = substr

\* arr.indexOf(val) >= 0
IndexOfFound(arr, val) ==
    arr.t = "Array" /\ \E i \in 1..Len(arr.v) : StrictEq(arr.v[i], val)

LogicNames ==
    {K("$regexp"), K("$includes"), K("$eq"), K("$ne"), K("$lt"), K("$lte"),
     K("$gt"), K("$gte"), K("$in"), K("$nin"), K("$exists"), K("$type")}

\* LOGICS[name](val1, val2) raises a TypeError: the method it calls is missing
\* on the operand or on the field value, or refuses its argument
LOGICSThrows(name, val1, val2) ==
    CASE name = K("$regexp") -> val1.t # "RegExp"
      [] name = K("$includes") ->
            ~(val2.t = "Array" \/ (val2.t = "string" /\ val1.t # "RegExp"))
      [] name \in {K("$in"), K("$nin")} -> val1.t \notin {"Array", "string"}
      [] OTHER -> FALSE

\* LOGICS[name](val1, val2) where it raises nothing: val1 is the operand of the
\* query, val2 the field value.
LOGICS(name, val1, val2) ==
    CASE name = K("$regexp") -> val1.t = "RegExp" /\ JsString(val2) \in val1.v
      [] name = K("$includes") ->
            \/ val2.t = "string" /\ val1.t # "RegExp" /\ Includes(val2.v, JsString(val1))
            \/ IndexOfFound(val2, val1)
      [] name = K("$eq") -> StrictEq(val1, val2)
      [] name = K("$ne") -> ~StrictEq(val1, val2)
      [] name = K("$lt") -> JsLess(LengthOf(val2), LengthOf(val1))
      [] name = K("$lte") -> JsLessEq(LengthOf(val2), LengthOf(val1))
      [] name = K("$gt") -> JsLess(LengthOf(val1), LengthOf(val2))
      [] name = K("$gte") -> JsLessEq(LengthOf(val1), LengthOf(val2))
      [] name = K("$in") ->
            \/ IndexOfFound(val1, val2)
            \/ val1.t = "string" /\ Includes(val1.v, JsString(val2))
      [] name = K("$nin") ->
            \/ val1.t = "Array" /\ ~IndexOfFound(val1, val2)
            \/ val1.t = "string" /\ ~Includes(val1.v, JsString(val2))
      [] name = K("$exists") ->
            IF val1 = Bool(TRUE) THEN Truthy(val2) ELSE ~Truthy(val2)
      [] name = K("$type") -> StrictEq(val1, Str(getType(val2)))
      [] OTHER -> FALSE

----------------------------------------------------------------------------
(* methods.js: flat, logic, LOGICGATES, match, find *)

\* the field names of the model, in the order objects enumerate them
FieldNames == <<"_id", "a", "b", "c", "fk", "name", "owner", "undefined", "z">>

\* for (p in cur): the property names of an object, in enumeration order
ForIn(obj) == SelectSeq([n \in 1..Len(FieldNames) |-> K(FieldNames[n])],
                        LAMBDA key : key \in DOMAIN obj.v)

\* prop + "[" + i + "]"
IndexedPath(prop, i) ==
    IF prop = <<>> THEN K("[" \o ToString(i) \o "]")
    ELSE [prop EXCEPT ![Len(prop)] = @ \o "[" \o ToString(i) \o "]"]

\* prop ? prop + "." + p : p
DottedPath(prop, p) == IF prop = <<>> THEN p ELSE prop \o p

\* recurseFlat(cur, prop) of flat: st holds the variables the closure shares
\* between its calls, result, isEmpty, i and l
RECURSIVE recurseFlat(_, _, _)
RECURSIVE flatArrayLoop(_, _, _)
RECURSIVE flatObjectLoop(_, _, _, _)

flatArrayLoop(cur, prop, st) ==
    IF st.i < st.l
    THEN LET s1 == recurseFlat(cur.v[st.i + 1], IndexedPath(prop, st.i), st)
         IN flatArrayLoop(cur, prop, [s1 EXCEPT !.i = @ + 1])
    ELSE st

flatObjectLoop(cur, prop, props, st) ==
    IF props = <<>> THEN st
    ELSE LET p == Head(props)
             s1 == recurseFlat(cur.v[p], DottedPath(prop, p),
                               [st EXCEPT !.isEmpty = FALSE])
         IN flatObjectLoop(cur, prop, Tail(props), s1)

recurseFlat(cur, prop, st) ==
    IF IsPrimitive(cur)
    THEN [st EXCEPT !.result = Put(@, prop, cur)]
    ELSE IF cur.t = "Array"
    THEN LET s1 == flatArrayLoop(cur, prop, [st EXCEPT !.l = Len(cur.v), !.i = 0])
         IN IF s1.l = 0 THEN [s1 EXCEPT !.result = Put(@, prop, Arr(<<>>))] ELSE s1
    ELSE LET props == IF cur.t = "Object" THEN ForIn(cur) ELSE <<>>
             s1 == flatObjectLoop(cur, prop, props, [st EXCEPT !.isEmpty = TRUE])
         IN IF s1.isEmpty /\ prop # <<>>
            THEN [s1 EXCEPT !.result = Put(@, prop, EmptyObj)] ELSE s1

flat(item) ==
    recurseFlat(item, <<>>, [result |-> EmptyObj, isEmpty |-> FALSE, i |-> 0, l |-> 0]).result

\* logic(query, item, key): every sub-key of query[key] is a known predicate
\* that accepts the truthy item[key]
logic(query, item, key) ==
    \A k \in ObjectKeys(Prop(query, key)) :
        /\ Truthy(Prop(item, key))
        /\ k \in LogicNames
        /\ LOGICS(k, Prop(Prop(query, key), k), Prop(item, key))

GateNames == {K("$or"), K("$and"), K("$intern")}

\* LOGICGATES[name](queryArr, item)
LOGICGATES(name, queryArr, item) ==
    CASE name = K("$or") ->
            \E n \in 1..Len(queryArr.v) :
                \A key \in ObjectKeys(queryArr.v[n]) : logic(queryArr.v[n], item, key)
      [] name \in {K("$and"), K("$intern")} ->
            \A n \in 1..Len(queryArr.v) :
                \A key \in ObjectKeys(queryArr.v[n]) : logic(queryArr.v[n], item, key)
      [] OTHER -> FALSE

\* match with keys.some in place of keys.every
matchSome(query, item, keys) ==
    LET copy == flat(item)
    IN \E key \in keys :
        \/ StrictEq(Prop(query, key), Prop(copy, key))
        \/ /\ TypeofObject(Prop(query, key))
           /\ \/ logic(query, copy, key)
              \/ key \in GateNames /\ LOGICGATES(key, Prop(query, key), copy)

\* match(query, item, keys)
match(query, item, keys) ==
    LET copy == flat(item)
    IN \A key \in keys :
        \/ StrictEq(Prop(query, key), Prop(copy, key))
        \/ /\ TypeofObject(Prop(query, key))
           /\ \/ logic(query, copy, key)
              \/ key \in GateNames /\ LOGICGATES(key, Prop(query, key), copy)

\* the names of the properties of queries, in the order a query enumerates
\* them in the model: the fields, the combinators, the predicates, the rest
QueryNames ==
    FieldNames \o <<"$or", "$and", "$intern", "$nor">>
        \o <<"$regexp", "$includes", "$eq", "$ne", "$lt", "$lte", "$gt", "$gte",
             "$in", "$nin", "$exists", "$type">>
        \o <<"$alias", "$bogus">>

\* Object.keys(val) of a query or of a part of one, in order
QueryKeys(val) ==
    CASE val.t = "Object" ->
            SelectSeq([n \in 1..Len(QueryNames) |-> K(QueryNames[n])],
                      LAMBDA key : key \in DOMAIN val.v)
                \o LET N == Len(FieldNames)
                   IN IF \A key \in DOMAIN val.v : Len(key) = 1 THEN <<>>
                      ELSE SelectSeq([n \in 1..(N * N) |->
                                         <<FieldNames[((n - 1) \div N) + 1],
                                           FieldNames[((n - 1) % N) + 1]>>],
                                     LAMBDA key : key \in DOMAIN val.v)
      [] val.t \in {"Array", "string"} -> [n \in 1..Len(val.v) |-> IndexKey(n - 1)]
      [] OTHER -> <<>>

\* the loop of logic raises a TypeError: a predicate does, reached after the
\* predicates before it accepted
RECURSIVE logicLoopThrows(_, _, _, _)
logicLoopThrows(query, item, key, keys) ==
    IF keys = <<>> THEN FALSE
    ELSE LET k == Head(keys)
             val1 == Prop(Prop(query, key), k)
             val2 == Prop(item, key)
         IN IF ~Truthy(val2) \/ k \notin LogicNames THEN FALSE
            ELSE IF LOGICSThrows(k, val1, val2) THEN TRUE
            ELSE IF ~LOGICS(k, val1, val2) THEN FALSE
            ELSE logicLoopThrows(query, item, key, Tail(keys))

\* logic(query, item, key) raises a TypeError: Object.keys(query[key]) does for
\* null and undefined, or the loop does
logicThrows(query, item, key) ==
    \/ Prop(query, key).t \in {"null", "undefined"}
    \/ logicLoopThrows(query, item, key, QueryKeys(Prop(query, key)))

\* keys.every(key => logic(query, item, key)) of a combinator raises a
\* TypeError
RECURSIVE everyLogicThrows(_, _, _)
everyLogicThrows(query, item, keys) ==
    IF keys = <<>> THEN FALSE
    ELSE IF logicThrows(query, item, Head(keys)) THEN TRUE
    ELSE IF ~logic(query, item, Head(keys)) THEN FALSE
    ELSE everyLogicThrows(query, item, Tail(keys))

\* queryArr.some(...) or queryArr.every(...) of a combinator raises a
\* TypeError, from the sub-query at position n on
RECURSIVE gateLoopThrows(_, _, _, _)
gateLoopThrows(name, queryArr, item, n) ==
    IF n > Len(queryArr.v) THEN FALSE
    ELSE LET query == queryArr.v[n]
             accepts == \A key \in ObjectKeys(query) : logic(query, item, key)
         IN IF query.t \in {"null", "undefined"} THEN TRUE
            ELSE IF everyLogicThrows(query, item, QueryKeys(query)) THEN TRUE
            ELSE IF name = K("$or") /\ accepts THEN FALSE
            ELSE IF name # K("$or") /\ ~accepts THEN FALSE
            ELSE gateLoopThrows(name, queryArr, item, n + 1)

\* LOGICGATES[name](queryArr, item) raises a TypeError: queryArr is no list,
\* or the evaluation of a sub-query does
LOGICGATESThrows(name, queryArr, item) ==
    queryArr.t # "Array" \/ gateLoopThrows(name, queryArr, item, 1)

\* keys.every(...) of match raises a TypeError at a key that is reached
RECURSIVE matchLoopThrows(_, _, _)
matchLoopThrows(query, copy, keys) ==
    IF keys = <<>> THEN FALSE
    ELSE LET key == Head(keys)
             rest == matchLoopThrows(query, copy, Tail(keys))
         IN IF StrictEq(Prop(query, key), Prop(copy, key)) THEN rest
            ELSE IF ~TypeofObject(Prop(query, key)) THEN FALSE
            ELSE IF logicThrows(query, copy, key) THEN TRUE
            ELSE IF logic(query, copy, key) THEN rest
            ELSE IF key \notin GateNames THEN FALSE
            ELSE IF LOGICGATESThrows(key, Prop(query, key), copy) THEN TRUE
            ELSE IF LOGICGATES(key, Prop(query, key), copy) THEN rest
            ELSE FALSE

\* match(query, item, keys) raises a TypeError
matchThrows(query, item, keys) == matchLoopThrows(query, flat(item), keys)

\* $limit: Infinity
Infinity == 1000000

\* skipped after one matching or non-matching record, counting every record
findSkippedAll(hit, skip, skipped) == IF skip <= skipped THEN skipped ELSE skipped + 1

\* $skip <= skipped ? results.push(item) : skipped++, for a record that matches
findSkipped(hit, skip, skipped) == IF hit /\ ~(skip <= skipped) THEN skipped + 1 ELSE skipped

findPush(hit, skip, skipped) == hit /\ skip <= skipped

\* the loop goes on whatever results holds
findMoreNoLimit(items, i, results, limit) == i >= 1 /\ i <= Len(items)

\* while (items[i] && results.length !== $limit), with positions from 1
findMore(items, i, results, limit) == i >= 1 /\ i <= Len(items) /\ Len(results) # limit

\* next() that always steps forward
findNextForward(reverse, i) == i + 1

\* next()
findNext(reverse, i) == IF reverse = Bool(FALSE) THEN i + 1 ELSE i - 1

\* the loop of find; results holds the positions in items of the records found
RECURSIVE findLoop(_, _, _, _, _, _, _)
findLoop(query, items, skip, limit, reverse, st, keys) ==
    IF findMore(items, st.i, st.results, limit)
    THEN LET hit == match(query, items[st.i], keys)
         IN findLoop(query, items, skip, limit, reverse,
                     [i |-> findNext(reverse, st.i),
                      skipped |-> findSkipped(hit, skip, st.skipped),
                      results |-> IF findPush(hit, skip, st.skipped)
                                  THEN Append(st.results, st.i) ELSE st.results],
                     keys)
    ELSE st.results

\* a scan that goes through the records whatever $limit is
findUnlimited(query, items, options) ==
    findLoop(query, items,
             IF options.skip < 0 THEN 0 ELSE options.skip,
             Infinity, options.reverse,
             [i |-> IF options.reverse = Bool(FALSE) THEN 1 ELSE Len(items),
              skipped |-> 0, results |-> <<>>],
             ObjectKeys(query))

\* find(query, items, options): the positions of the records it returns
find(query, items, options) ==
    IF options.limit <= 0 THEN <<>>
    ELSE findLoop(query, items,
                  IF options.skip < 0 THEN 0 ELSE options.skip,
                  options.limit, options.reverse,
                  [i |-> IF options.reverse = Bool(FALSE) THEN 1 ELSE Len(items),
                   skipped |-> 0, results |-> <<>>],
                  ObjectKeys(query))

\* the loop of find raises the TypeError of match for a record it visits
RECURSIVE findLoopThrows(_, _, _, _, _, _, _)
findLoopThrows(query, items, skip, limit, reverse, st, keys) ==
    IF findMore(items, st.i, st.results, limit)
    THEN IF matchThrows(query, items[st.i], QueryKeys(query)) THEN TRUE
         ELSE LET hit == match(query, items[st.i], keys)
              IN findLoopThrows(query, items, skip, limit, reverse,
                                [i |-> findNext(reverse, st.i),
                                 skipped |-> findSkipped(hit, skip, st.skipped),
                                 results |-> IF findPush(hit, skip, st.skipped)
                                             THEN Append(st.results, st.i) ELSE st.results],
                                keys)
    ELSE FALSE

\* find(query, items, options) is rejected with a TypeError
findThrows(query, items, options) ==
    IF options.limit <= 0 THEN FALSE
    ELSE findLoopThrows(query, items,
                        IF options.skip < 0 THEN 0 ELSE options.skip,
                        options.limit, options.reverse,
                        [i |-> IF options.reverse = Bool(FALSE) THEN 1 ELSE Len(items),
                         skipped |-> 0, results |-> <<>>],
                        ObjectKeys(query))

\* the positions of the records the loop of find hands to match, in order;
\* the record match raises its TypeError for is the last of them
RECURSIVE findLoopVisits(_, _, _, _, _, _, _, _)
findLoopVisits(query, items, skip, limit, reverse, st, keys, visited) ==
    IF findMore(items, st.i, st.results, limit)
    THEN IF matchThrows(query, items[st.i], QueryKeys(query)) THEN Append(visited, st.i)
         ELSE LET hit == match(query, items[st.i], keys)
              IN findLoopVisits(query, items, skip, limit, reverse,
                                [i |-> findNext(reverse, st.i),
                                 skipped |-> findSkipped(hit, skip, st.skipped),
                                 results |-> IF findPush(hit, skip, st.skipped)
                                             THEN Append(st.results, st.i) ELSE st.results],
                                keys, Append(visited, st.i))
    ELSE visited

\* the positions of the records find(query, items, options) invokes match on
findVisits(query, items, options) ==
    IF options.limit <= 0 THEN <<>>
    ELSE findLoopVisits(query, items,
                        IF options.skip < 0 THEN 0 ELSE options.skip,
                        options.limit, options.reverse,
                        [i |-> IF options.reverse = Bool(FALSE) THEN 1 ELSE Len(items),
                         skipped |-> 0, results |-> <<>>],
                        ObjectKeys(query), <<>>)

\* the records at the positions
ItemsAt(items, positions) == [n \in 1..Len(positions) |-> items[positions[n]]]

----------------------------------------------------------------------------
(* The matcher applied to one query and one record *)

R1(a) == Obj(K("a") :> a)
R2(a, b) == Obj((K("a") :> a) @@ (K("b") :> b))

FieldValues == {Num(0), Num(1), Num(2), Str(""), Str("ab")}

\* values flat has no properties to descend into: a Date, a pattern, an
\* empty list
TerminalValues == {DateOf(1), Rx({"ab"}), Arr(<<>>)}

MatchItems ==
    {EmptyObj, R1(Obj(K("b") :> Num(1)))} \cup {R1(a) : a \in FieldValues}
        \cup {R1(a) : a \in TerminalValues} \cup {R2(Num(1), DateOf(1))}
        \cup {R2(a, b) : a \in {Num(1), Num(2)}, b \in {Num(0), Num(2), Str("ab")}}

Constraints ==
    {Num(0), Num(1), Str(""), Str("ab"),
     Obj(K("$gt") :> Num(1)), Obj(K("$in") :> Arr(<<Num(0), Num(2)>>)),
     Obj(K("$exists") :> Bool(FALSE)), Obj(K("$exists") :> Bool(TRUE)),
     Obj(K("$bogus") :> Num(1)), Obj((K("$gt") :> Num(0)) @@ (K("$bogus") :> Num(1))),
     EmptyObj}

SubQueries ==
    {R1(c) : c \in Constraints} \cup {Obj(K("b") :> c) : c \in {Num(2), Obj(K("$lt") :> Num(3))}}
        \cup {R2(Num(1), Num(2)), R2(Obj(K("$gt") :> Num(1)), Str("ab")),
              R2(Obj(K("$gt") :> Num(0)), Obj(K("$eq") :> Num(2)))}

Gate(name, q1, q2) == Obj(K(name) :> Arr(<<q1, q2>>))

GateQueries ==
    {Gate(g, q1, q2) : g \in {"$or", "$and"},
                       q1 \in {R1(Num(1)), R1(Str("ab")), R1(Obj(K("$gt") :> Num(1)))},
                       q2 \in {R1(Num(1)), Obj(K("b") :> Obj(K("$eq") :> Num(2)))}}

\* queries with a null, with an unknown predicate, with a combinator whose
\* value is no list
MalformedQueries ==
    {R1(Null), R1(Obj(K("$bogus") :> Num(1))),
     Obj(K("$or") :> R1(Num(1))), Obj(K("$or") :> Null),
     Obj(K("$and") :> Num(5)), Obj(K("$and") :> Str("ab"))}

\* predicates with an operand, or for a field value, of a type they are not
\* made for
MismatchQueries ==
    {R1(Obj(K("$includes") :> Str("a"))), R1(Obj(K("$regexp") :> Str("ab"))),
     R1(Obj(K("$in") :> Num(1))), R1(Obj(K("$nin") :> Num(1))),
     R1(Obj(K("$nin") :> Bool(TRUE)))}

\* a combinator in the one sub-query of the other combinator
Nested(outer, inner, q1, q2) == Obj(K(outer) :> Arr(<<Gate(inner, q1, q2)>>))

NestedQueries ==
    {Nested(g[1], g[2], q1, q2) :
        g \in {<<"$or", "$and">>, <<"$and", "$or">>},
        q1 \in {R1(Obj(K("$gt") :> Num(1))), R1(Obj(K("$eq") :> Num(1)))},
        q2 \in {Obj(K("b") :> Obj(K("$eq") :> Num(2)))}}

OrderNames == {"$lt", "$lte", "$gt", "$gte"}

\* an ordering predicate on field a, with a number or a string for operand
OrderQueries ==
    {R1(Obj(K(op) :> x)) : op \in OrderNames, x \in {Num(1), Num(2), Str(""), Str("ab")}}

\* $type on field a or b, with a type tag of getType
TypeQueries ==
    {Obj(K(f) :> Obj(K("$type") :> Str(tag))) :
        f \in {"a", "b"}, tag \in {"Date", "RegExp", "Array", "Object", "number"}}

MatchQueries ==
    {EmptyObj, R1(Obj(K("$regexp") :> Rx({"ab", "2"}))), Obj(K("$or") :> Arr(<<>>))}
        \cup TypeQueries
        \cup SubQueries \cup GateQueries \cup MalformedQueries \cup MismatchQueries
        \cup NestedQueries \cup OrderQueries

MatchInit ==
    /\ mQuery \in MatchQueries
    /\ mItem \in MatchItems
    /\ mOut = <<>>
    /\ mErr = "none"

\* match(query, item, Object.keys(query)), as find calls it
MatchCall ==
    /\ mErr = "none"
    /\ IF matchThrows(mQuery, mItem, QueryKeys(mQuery))
       THEN mOut' = <<>> /\ mErr' = "TypeError"
       ELSE mOut' = <<match(mQuery, mItem, ObjectKeys(mQuery))>> /\ mErr' = "null"
    /\ UNCHANGED <<mQuery, mItem>>

MatchNext == MatchCall

MatchIdle == mQuery = EmptyObj /\ mItem = EmptyObj /\ mOut = <<>> /\ mErr = "none"

HasGateKey(query) == ObjectKeys(query) \cap GateNames # {}

\* the query with the one key
OneKey(query, key) == Obj(key :> Prop(query, key))

\* C4: a query without combinator keys matches a record iff each of its keys,
\* taken alone as a single-key query, matches the record; the empty query
\* matches every record
C4_Conjunction ==
    (mOut # <<>> /\ ~HasGateKey(mQuery)) =>
        (mOut[1] <=> \A key \in ObjectKeys(mQuery) : match(OneKey(mQuery, key), mItem, {key}))

C4_Witness ==
    /\ mOut = <<FALSE>>
    /\ Cardinality(ObjectKeys(mQuery)) = 2
    /\ \E key \in ObjectKeys(mQuery) : match(OneKey(mQuery, key), mItem, {key})

\* C5: {$or: [q1, q2]} matches a record iff q1 or q2 matches it, and
\* {$and: [q1, q2]} iff both do
C5_AnyOf ==
    (mOut # <<>> /\ mQuery \in GateQueries) =>
        LET q1 == Prop(Prop(mQuery, K("$or")), IndexKey(0))
            q2 == Prop(Prop(mQuery, K("$or")), IndexKey(1))
            p1 == Prop(Prop(mQuery, K("$and")), IndexKey(0))
            p2 == Prop(Prop(mQuery, K("$and")), IndexKey(1))
        IN IF K("$or") \in ObjectKeys(mQuery)
           THEN mOut[1] <=> (match(q1, mItem, ObjectKeys(q1)) \/ match(q2, mItem, ObjectKeys(q2)))
           ELSE mOut[1] <=> (match(p1, mItem, ObjectKeys(p1)) /\ match(p2, mItem, ObjectKeys(p2)))

\* C13: match raises nothing for a malformed query and returns false for it
C13_NeverRaises ==
    (mErr # "none" /\ mQuery \in MalformedQueries) => (mErr = "null" /\ mOut = <<FALSE>>)

\* C14: a predicate applied to a field value or an operand of a type it is
\* not made for makes match return false, and raises nothing
C14_Mismatch ==
    (/\ mErr # "none"
     /\ mQuery \in MismatchQueries
     /\ K("$includes") \in ObjectKeys(Prop(mQuery, K("a"))) => Prop(mItem, K("a")).t # "string") =>
        (mErr = "null" /\ mOut = <<FALSE>>)

\* C15: {a: {$exists: true}} matches a record iff a is in the record with a
\* value that is not falsy, and {a: {$exists: false}} iff a is missing or
\* falsy
C15_Exists ==
    \A b \in BOOLEAN :
        (mErr = "null" /\ mQuery = R1(Obj(K("$exists") :> Bool(b)))) =>
            (mOut[1] <=> (Truthy(Prop(mItem, K("a"))) <=> b))

\* C16: a scalar literal under a field matches the records that $eq with the
\* same scalar matches
C16_LiteralIsEq ==
    (/\ mErr = "null"
     /\ ObjectKeys(mQuery) = {K("a")}
     /\ Prop(mQuery, K("a")).t \in {"number", "string", "boolean"}) =>
        (mOut[1] <=> match(R1(Obj(K("$eq") :> Prop(mQuery, K("a")))), mItem, {K("a")}))

\* C17: an object under a field matches only when it has sub-keys and every
\* one of them is a known predicate that accepts the field's value
C17_FailClosed ==
    (/\ mErr = "null"
     /\ ObjectKeys(mQuery) = {K("a")}
     /\ Prop(mQuery, K("a")).t = "Object"
     /\ mOut[1]) =>
        LET preds == Prop(mQuery, K("a"))
        IN /\ ObjectKeys(preds) # {}
           /\ \A k \in ObjectKeys(preds) :
                 k \in LogicNames /\ LOGICS(k, Prop(preds, k), Prop(flat(mItem), K("a")))

\* C18: {$or: [{$and: [q1, q2]}]} matches a record iff q1 and q2 match it, and
\* {$and: [{$or: [q1, q2]}]} iff q1 or q2 does
C18_Recursive ==
    (mErr = "null" /\ mQuery \in NestedQueries) =>
        LET outer == IF K("$or") \in ObjectKeys(mQuery) THEN K("$or") ELSE K("$and")
            inner == IF outer = K("$or") THEN K("$and") ELSE K("$or")
            qs == Prop(Prop(Prop(mQuery, outer), IndexKey(0)), inner)
            m1 == match(qs.v[1], mItem, ObjectKeys(qs.v[1]))
            m2 == match(qs.v[2], mItem, ObjectKeys(qs.v[2]))
        IN mOut[1] <=> (IF inner = K("$and") THEN m1 /\ m2 ELSE m1 \/ m2)

\* C19: {$or: []} matches no record
C19_EmptyAnyOf ==
    (mErr = "null" /\ mQuery = Obj(K("$or") :> Arr(<<>>))) => mOut = <<FALSE>>

\* what an ordering predicate compares: the length of a string, a number
\* itself
Size(val) == IF val.t = "string" THEN Len(val.v) ELSE val.v

\* the comparison an ordering predicate stands for, of value v with operand x
Ordered(op, v, x) ==
    CASE op = "$lt" -> v < x
      [] op = "$lte" -> v <= x
      [] op = "$gt" -> v > x
      [] op = "$gte" -> v >= x

\* C30: for numbers and strings as operand x and field value v, $lt, $lte,
\* $gt and $gte hold exactly when v < x, v <= x, v > x and v >= x hold with
\* the length in the place of a string, and a query with the predicate on a
\* field with a truthy value matches exactly then
C30_Ordering ==
    \A op \in OrderNames :
        (/\ DOMAIN mQuery.v = {K("a")} /\ mQuery.v[K("a")].t = "Object"
         /\ DOMAIN mQuery.v[K("a")].v = {K(op)}
         /\ mQuery.v[K("a")].v[K(op)].t \in {"number", "string"}
         /\ Prop(mItem, K("a")).t \in {"number", "string"}) =>
            LET x == mQuery.v[K("a")].v[K(op)]
                v == mItem.v[K("a")]
            IN /\ LOGICS(K(op), x, v) <=> Ordered(op, Size(v), Size(x))
               /\ (mOut # <<>> /\ Truthy(v)) => (mOut[1] <=> Ordered(op, Size(v), Size(x)))

\* a string field has been compared with a string operand, by their lengths
C30_Witness ==
    /\ mQuery = R1(Obj(K("$gt") :> Str("")))
    /\ mItem = R1(Str("ab"))
    /\ mOut = <<TRUE>>

\* C32: the flattened copy match works on holds every Date, every pattern
\* and every empty list of the record unchanged at its own path, so a $type
\* predicate on that path with the type tag of the value matches; the record
\* itself is not modified
C32_Terminals ==
    mErr = "null" =>
        \A key \in ObjectKeys(mItem) :
            LET v == Prop(mItem, key)
            IN v \in TerminalValues =>
                /\ Prop(flat(mItem), key) = v
                /\ mQuery = Obj(key :> Obj(K("$type") :> Str(getType(v)))) => mOut = <<TRUE>>

----------------------------------------------------------------------------
(* The scanner applied to one query, one record sequence and one set of options *)

MaxItems == 3
MaxSkip == 3
MaxLimit == 2

ScanRecords == {R1(Num(1)), R1(Num(2)), R2(Num(1), Num(2))}

ScanQueries ==
    {EmptyObj, R1(Num(1)), R1(Obj(K("$gt") :> Num(1))),
     Gate("$or", R1(Obj(K("$eq") :> Num(2))), Obj(K("b") :> Obj(K("$eq") :> Num(2)))),
     Obj(K("b") :> Obj(K("$includes") :> Str("x")))}

SeqsUpTo(S, n) == UNION {[1..m -> S] : m \in 0..n}

ScanOptions ==
    [skip : -1..MaxSkip, limit : (0..MaxLimit) \cup {Infinity},
     reverse : {Bool(FALSE), Bool(TRUE), Undefined}]

ScanInit ==
    /\ sQuery \in ScanQueries
    /\ sItems \in SeqsUpTo(ScanRecords, MaxItems)
    /\ sOptions \in ScanOptions
    /\ sPc = "configured"
    /\ sOut = <<>>
    /\ sVisited = <<>>

\* find(query, items, options): its result, or its rejection
FindCall ==
    /\ sPc = "configured"
    /\ IF findThrows(sQuery, sItems, sOptions)
       THEN sOut' = <<>> /\ sPc' = "failed"
       ELSE sOut' = find(sQuery, sItems, sOptions) /\ sPc' = "executed"
    /\ sVisited' = findVisits(sQuery, sItems, sOptions)
    /\ UNCHANGED <<sQuery, sItems, sOptions>>

ScanNext == FindCall

ScanIdle ==
    /\ sQuery = EmptyObj /\ sItems = <<>> /\ sPc = "idle" /\ sOut = <<>>
    /\ sVisited = <<>>
    /\ sOptions = [skip |-> 0, limit |-> Infinity, reverse |-> Bool(FALSE)]

\* the positions of items in the order the scan visits them
ScanOrder(items, reverse) ==
    [n \in 1..Len(items) |-> IF reverse = Bool(FALSE) THEN n ELSE Len(items) + 1 - n]

\* the positions of the matching records, in scan order
ScanMatches(query, items, reverse) ==
    SelectSeq(ScanOrder(items, reverse),
              LAMBDA i : match(query, items[i], ObjectKeys(query)))

Drop(s, k) == SubSeq(s, k + 1, Len(s))
Min(a, b) == IF a <= b THEN a ELSE b
Max(a, b) == IF a >= b THEN a ELSE b

\* C2: with an unbounded limit and 0 <= $skip <= number of matches, find
\* returns what it returns with $skip 0 less its first $skip elements, which
\* are matches only; a negative $skip behaves like $skip 0
C2_SkipCountsMatches ==
    (sPc = "executed" /\ sOptions.limit = Infinity) =>
        LET all == find(sQuery, sItems, [sOptions EXCEPT !.skip = 0])
        IN /\ all = ScanMatches(sQuery, sItems, sOptions.reverse)
           /\ (sOptions.skip >= 0 /\ sOptions.skip <= Len(all)) =>
                 sOut = Drop(all, sOptions.skip)
           /\ sOptions.skip < 0 => sOut = all

C2_Witness ==
    /\ sPc = "executed" /\ sOptions.limit = Infinity /\ sOptions.skip = 1
    /\ Len(sOut) = 1
    /\ Len(sItems) = 3
    /\ ~match(sQuery, sItems[1], ObjectKeys(sQuery))
    /\ sOptions.reverse = Bool(FALSE)

\* C3: for $skip k >= 0 and $limit L >= 0 the result has min(L, max(0, M - k))
\* elements, M the number of matching records, and is a prefix of the result
\* with the same skip and an unbounded limit
C3_Limit ==
    (sPc = "executed" /\ sOptions.skip >= 0 /\ sOptions.limit >= 0) =>
        LET M == Cardinality({i \in 1..Len(sItems) :
                                 match(sQuery, sItems[i], ObjectKeys(sQuery))})
            unbounded == find(sQuery, sItems, [sOptions EXCEPT !.limit = Infinity])
        IN /\ Len(sOut) = Min(sOptions.limit, Max(0, M - sOptions.skip))
           /\ Len(sOut) <= Len(unbounded)
           /\ sOut = SubSeq(unbounded, 1, Len(sOut))

C3_Witness ==
    /\ sPc = "executed" /\ sOptions.skip = 1 /\ sOptions.limit = 1
    /\ Len(sOut) = 1
    /\ Len(find(sQuery, sItems, [sOptions EXCEPT !.limit = Infinity])) = 2

Reversed(s) == [n \in 1..Len(s) |-> s[Len(s) + 1 - n]]

\* C12: with $reverse true, $skip 0 and an unbounded $limit, find returns the
\* result of the forward find in reversed order
C12_Reverse ==
    (sPc = "executed" /\ sOptions.reverse = Bool(TRUE)
        /\ sOptions.skip = 0 /\ sOptions.limit = Infinity) =>
        sOut = Reversed(find(sQuery, sItems, [sOptions EXCEPT !.reverse = Bool(FALSE)]))

C12_Witness ==
    /\ sPc = "executed" /\ sOptions.reverse = Bool(TRUE)
    /\ sOptions.skip = 0 /\ sOptions.limit = Infinity
    /\ Len(sItems) = 3 /\ sOut = <<3, 1>>

\* C31: with $limit 0, whatever the query, the records, $skip and the
\* direction are, find returns the empty sequence, is not rejected, and has
\* invoked match on no record
C31_LimitZero ==
    (sPc # "configured" /\ sPc # "idle" /\ sOptions.limit = 0) =>
        sPc = "executed" /\ sOut = <<>> /\ sVisited = <<>>

\* $limit 0 on three records the query matches, and on records match raises
\* its TypeError for when it is handed one
C31_Witness ==
    /\ sPc = "executed" /\ sOptions.limit = 0 /\ Len(sItems) = 3
    /\ \/ \A i \in 1..3 : match(sQuery, sItems[i], ObjectKeys(sQuery))
       \/ \A i \in 1..3 : matchThrows(sQuery, sItems[i], QueryKeys(sQuery))
    /\ sOut = <<>>

----------------------------------------------------------------------------
(* methods.js: unflatten, project *)

\* the property names of one and of two segments over FieldNames, in the
\* order Object.keys enumerates them in the model
KeyOrder ==
    LET N == Len(FieldNames)
    IN [n \in 1..N |-> K(FieldNames[n])]
        \o [n \in 1..(N * N) |-> <<FieldNames[((n - 1) \div N) + 1], FieldNames[((n - 1) % N) + 1]>>]

\* the names flat gives to list elements, name[i], field by field
IndexedNames ==
    LET I == MaxIndex + 1
    IN [n \in 1..(Len(FieldNames) * I) |->
            FieldNames[((n - 1) \div I) + 1] \o "[" \o ToString((n - 1) % I) \o "]"]

\* the property names of one and of two segments with a list element in them,
\* in the order Object.keys enumerates them in the model
IndexedKeyOrder ==
    LET S == FieldNames \o IndexedNames
        N == Len(S)
        F == Len(FieldNames)
        pairs == [n \in 1..(N * N) |-> <<S[((n - 1) \div N) + 1], S[((n - 1) % N) + 1]>>]
    IN [n \in 1..Len(IndexedNames) |-> K(IndexedNames[n])]
        \o SelectSeq(pairs, LAMBDA key : \E i \in 1..Len(IndexedNames) :
                                            IndexedNames[i] \in {key[1], key[2]})

\* Object.keys(obj), in order
OrderedKeys(obj) ==
    SelectSeq(KeyOrder, LAMBDA key : key \in DOMAIN obj.v)
        \o (IF \A key \in DOMAIN obj.v : \E n \in 1..Len(KeyOrder) : KeyOrder[n] = key
            THEN <<>>
            ELSE SelectSeq(IndexedKeyOrder, LAMBDA key : key \in DOMAIN obj.v))

\* isNaN(Number(segment)) is false: the segment after next is a list index
IsNumberSegment(keys, j) == j <= Len(keys) /\ IndexOf(K(keys[j])) >= 0

\* r[e] = val on an object or a list
PutVal(r, e, val) ==
    CASE r.t = "Object" -> Put(r, e, val)
      [] r.t = "Array" /\ IndexOf(e) = Len(r.v) -> Arr(Append(r.v, val))
      [] r.t = "Array" /\ IndexOf(e) >= 0 /\ IndexOf(e) < Len(r.v) ->
            Arr([r.v EXCEPT ![IndexOf(e) + 1] = val])
      [] OTHER -> r

\* keys.reduce((r, e, j) => r[e] || (r[e] = ...), result), from segment j on
RECURSIVE unflattenReduce(_, _, _, _)
unflattenReduce(r, keys, j, val) ==
    LET e == K(keys[j])
        old == Prop(r, e)
        fresh == IF IsNumberSegment(keys, j + 1) THEN Arr(<<>>)
                 ELSE IF j = Len(keys) THEN val ELSE EmptyObj
        next == IF Truthy(old) THEN old ELSE fresh
    IN IF j = Len(keys)
       THEN IF Truthy(old) THEN r ELSE PutVal(r, e, fresh)
       ELSE PutVal(r, e, unflattenReduce(next, keys, j + 1, val))

RECURSIVE unflattenKeys(_, _, _)
unflattenKeys(item, iKeys, result) ==
    IF iKeys = <<>> THEN result
    ELSE unflattenKeys(item, Tail(iKeys),
                       unflattenReduce(result, Head(iKeys), 1, Prop(item, Head(iKeys))))

unflatten(item) == unflattenKeys(item, OrderedKeys(item), EmptyObj)

\* projection[key]["$alias"]
AliasOf(projection, key) == Prop(Prop(projection, key), K("$alias"))

projectHide(projection, key) ==
    Prop(projection, key) = Bool(FALSE) \/ Truthy(AliasOf(projection, key))

projectShow(projection, key) == Prop(projection, key) = Bool(TRUE)

\* the property a string names: a name with a "." in it is one that
\* key.split(".") of unflatten takes apart
PropertyName(str) ==
    LET N == Len(FieldNames)
        pairs == {<<FieldNames[i], FieldNames[j]>> : i, j \in 1..N}
        hits == {key \in pairs : key[1] \o "." \o key[2] = str}
    IN IF hits = {} THEN K(str) ELSE CHOOSE key \in hits : TRUE

\* the body of projectionKeys.map for one key of the projection
projectKey(newItem, copy, projection, key) ==
    LET aliased == IF Truthy(AliasOf(projection, key))
                   THEN Put(newItem, PropertyName(AliasOf(projection, key).v), Prop(copy, key))
                   ELSE newItem
    IN IF projectHide(projection, key) /\ Truthy(Prop(aliased, key))
       THEN Put(aliased, key, Undefined)
       ELSE IF projectShow(projection, key) /\ Truthy(Prop(aliased, key))
       THEN Put(aliased, key, Prop(copy, key))
       ELSE aliased

RECURSIVE projectKeys(_, _, _, _)
projectKeys(newItem, copy, projection, keys) ==
    IF keys = <<>> THEN newItem
    ELSE projectKeys(projectKey(newItem, copy, projection, Head(keys)),
                     copy, projection, Tail(keys))

\* project of one item
projectItem(item, projection) ==
    LET unflat == \E key \in ObjectKeys(projection) : Len(key) > 1
        newItem == projectKeys(item, flat(item), projection, OrderedKeys(projection))
    IN IF unflat THEN unflatten(newItem) ELSE newItem

\* the properties of newItem that still hold the value { ...item } gave them,
\* which for a nested record or list is the one object the source item holds
RECURSIVE projectShared(_, _, _, _, _)
projectShared(shared, newItem, copy, projection, keys) ==
    IF keys = <<>> THEN shared
    ELSE LET key == Head(keys)
             alias == AliasOf(projection, key)
             aliased == IF Truthy(alias)
                        THEN Put(newItem, PropertyName(alias.v), Prop(copy, key))
                        ELSE newItem
             afterAlias == IF Truthy(alias) THEN shared \ {PropertyName(alias.v)} ELSE shared
             afterKey == IF (projectHide(projection, key) \/ projectShow(projection, key))
                               /\ Truthy(Prop(aliased, key))
                         THEN afterAlias \ {key} ELSE afterAlias
         IN projectShared(afterKey, projectKey(newItem, copy, projection, key),
                          copy, projection, Tail(keys))

\* the source item after project of it: unflatten puts the nested records
\* and lists of newItem into its result as they are, and the reduce of a
\* later name that leads into one of them assigns to it
projectSource(item, projection) ==
    LET unflat == \E key \in ObjectKeys(projection) : Len(key) > 1
        keys == OrderedKeys(projection)
        newItem == projectKeys(item, flat(item), projection, keys)
        shared == projectShared({key \in DOMAIN item.v : Len(key) = 1 /\ ~IsPrimitive(item.v[key])},
                                item, flat(item), projection, keys)
    IN IF unflat
       THEN Obj([key \in DOMAIN item.v |->
                    IF key \in shared THEN unflatten(newItem).v[key] ELSE item.v[key]])
       ELSE item

\* project(items, projection)
project(items, projection) == [n \in 1..Len(items) |-> projectItem(items[n], projection)]

----------------------------------------------------------------------------
(* flat and unflatten applied to one record, one after the other *)

FlatScalars == {Num(0), Num(1), Str("x"), Bool(FALSE)}

\* scalars, nested records, lists of scalars and lists of records
FlatValues ==
    FlatScalars
        \cup {Obj(K("b") :> s) : s \in FlatScalars}
        \cup {Obj((K("b") :> s) @@ (K("c") :> Num(2))) : s \in FlatScalars}
        \cup {Arr(<<s>>) : s \in FlatScalars}
        \cup {Arr(<<s, Num(2)>>) : s \in FlatScalars}
        \cup {Arr(<<Obj(K("b") :> s)>>) : s \in FlatScalars}

FlatItems ==
    {R1(v) : v \in FlatValues}
        \cup {R2(v, w) : v \in FlatValues,
                         w \in {Num(2), Arr(<<Num(1)>>), Obj(K("c") :> Num(1))}}

FlatInit ==
    /\ fItem \in FlatItems
    /\ fOut = <<>>

\* unflatten(flat(item))
UnflattenFlat ==
    /\ fOut = <<>>
    /\ fOut' = <<unflatten(flat(fItem))>>
    /\ UNCHANGED fItem

FlatIdle == fItem = EmptyObj /\ fOut = <<>>

\* C11: unflattening the flattened form of a record built from scalars,
\* nested records and non-empty lists gives a record equal to it
C11_RoundTrip == fOut # <<>> => fOut[1] = fItem

----------------------------------------------------------------------------
(* The projector applied to one record and one projection *)

ProjectValues == {Num(0), Num(1), Str(""), Str("x"), Bool(FALSE)}

ProjectItems ==
    {R2(a, b) : a \in ProjectValues, b \in {Num(2)}}
        \cup {R2(Obj((K("b") :> b) @@ (K("c") :> Num(2))), Num(2)) : b \in ProjectValues}
        \cup {R1(Obj(K("b") :> Num(1)))}

ProjectPaths == {K("a"), K("b"), <<"a", "b">>, <<"a", "c">>}

Projections ==
    {Obj(path :> Bool(FALSE)) : path \in ProjectPaths}
        \cup {Obj(path :> Bool(TRUE)) : path \in ProjectPaths}
        \cup {Obj(K("a") :> Obj(K("$alias") :> Str("z"))),
              Obj(K("b") :> Obj(K("$alias") :> Str("z"))),
              Obj((K("a") :> Bool(FALSE)) @@ (K("b") :> Obj(K("$alias") :> Str("z")))),
              Obj(<<"a", "b">> :> Obj(K("$alias") :> Str("a.z")))}

ProjectInit ==
    /\ pItem \in ProjectItems
    /\ pProjection \in Projections
    /\ pOut = <<>>
    /\ pSrc = pItem

\* project([item], projection), as Cursor.results calls it
\* pSrc is the record of the backing sequence as the call leaves it
ProjectCall ==
    /\ pOut = <<>>
    /\ pOut' = project(<<pItem>>, pProjection)
    /\ pSrc' = projectSource(pItem, pProjection)
    /\ UNCHANGED <<pItem, pProjection>>

ProjectIdle == pItem = EmptyObj /\ pProjection = EmptyObj /\ pOut = <<>> /\ pSrc = EmptyObj

\* the paths of a record that lead to a terminal value, undefined ones left out
Paths(rec) == {path \in DOMAIN flat(rec).v : flat(rec).v[path] # Undefined}

IsPrefix(p, q) == Len(p) <= Len(q) /\ SubSeq(q, 1, Len(p)) = p

\* the record has a field at the path: a terminal or a nested record
HasPath(rec, path) == \E q \in Paths(rec) : IsPrefix(path, q)

\* C9: hiding a path that is present in a record leaves no field at the path
\* and every other path with its value
C9_Hide ==
    \A path \in ProjectPaths :
        (pOut # <<>> /\ pProjection = Obj(path :> Bool(FALSE)) /\ HasPath(pItem, path)) =>
            /\ ~HasPath(pOut[1], path)
            /\ \A q \in Paths(pItem) :
                  ~IsPrefix(path, q) => (q \in Paths(pOut[1]) /\ flat(pOut[1]).v[q] = flat(pItem).v[q])

\* C10: {a: {$alias: "z"}} on a record with a field a yields a record with z
\* holding the value of a, without a, and with every other field unchanged
C10_Alias ==
    (pOut # <<>> /\ pProjection = Obj(K("a") :> Obj(K("$alias") :> Str("z")))
        /\ K("a") \in DOMAIN pItem.v) =>
            /\ Prop(pOut[1], K("z")) = Prop(pItem, K("a"))
            /\ ~HasPath(pOut[1], K("a"))
            /\ Prop(pOut[1], K("b")) = Prop(pItem, K("b"))

\* C25: project leaves the record of the backing sequence as it was, nested
\* values included
C25_SourceKept == pOut # <<>> => pSrc = pItem

----------------------------------------------------------------------------
(* cursor.js: Cursor *)

\* new Cursor(query, items)
NewCursor(query) ==
    [query |-> query,
     options |-> [skip |-> 0, limit |-> Infinity, reverse |-> Bool(FALSE)],
     joins |-> <<>>, projection |-> EmptyObj,
     results |-> <<>>, joinedResults |-> <<>>]

\* { ...this.#query, ...query }
Spread(obj1, obj2) ==
    Obj([k \in (DOMAIN obj1.v) \cup (DOMAIN obj2.v) |->
            IF k \in DOMAIN obj2.v THEN obj2.v[k] ELSE obj1.v[k]])

\* get results()
cursorResults(cur) ==
    LET tmp == IF Len(cur.joinedResults) > 0 THEN cur.joinedResults ELSE cur.results
    IN IF ObjectKeys(cur.projection) # {} THEN project(tmp, cur.projection) ELSE tmp

\* the property a join spec's "as" names
AsKey(join) == IF join.as = Undefined THEN K("undefined") ELSE K(join.as.v)

\* { $intern: [{ [j.where[1]]: { $in: mixes[i] } }] }
InternQuery(join, mixes) ==
    Obj(K("$intern") :> Arr(<<Obj(K(join.where[2]) :> Obj(K("$in") :> Arr(mixes)))>>))

\* mixes[i]: the local results' values of the join's local field
Mixes(results, join) == [n \in 1..Len(results) |-> Prop(results[n], K(join.where[1]))]

\* exec() of a cursor without joins
execFind(cur, items) ==
    [cur EXCEPT !.results = ItemsAt(items, find(cur.query, items, cur.options))]

\* j.cursor.mixQuery({ $intern: ... }) for join j of a cursor with these results
mixJoin(cur, results, j) ==
    [cur EXCEPT !.query = Spread(@, InternQuery(j, Mixes(results, j)))]

\* the first loop of createJoin and the executions it starts: every join
\* mixes its query into its foreign cursor and starts that cursor's find at
\* once; the finds' results are assigned in the order of the joins before any
\* of the joins reads its cursor's results; a find that is rejected assigns
\* nothing
RECURSIVE startJoins(_, _, _, _, _)
startJoins(cs, items, results, joins, i) ==
    IF i > Len(joins) THEN cs
    ELSE LET j == joins[i]
             mixed == mixJoin(cs[j.cursor], results, j)
         IN startJoins([cs EXCEPT ![j.cursor] =
                            IF findThrows(mixed.query, items[j.cursor], mixed.options)
                            THEN mixed ELSE execFind(mixed, items[j.cursor])],
                       items, results, joins, i + 1)

\* await Promise.all(promises) is rejected: one of the executions started is
RECURSIVE startJoinsThrows(_, _, _, _, _)
startJoinsThrows(cs, items, results, joins, i) ==
    IF i > Len(joins) THEN FALSE
    ELSE LET j == joins[i]
             mixed == mixJoin(cs[j.cursor], results, j)
         IN \/ findThrows(mixed.query, items[j.cursor], mixed.options)
            \/ startJoinsThrows([cs EXCEPT ![j.cursor] = mixed],
                                items, results, joins, i + 1)

\* res[i].find(_i => join[j.where[0]] === _i[j.where[1]])
ArrayFind(res, join, j) ==
    LET hits == {n \in 1..Len(res) :
                    StrictEq(Prop(join, K(j.where[1])), Prop(res[n], K(j.where[2])))}
    IN IF hits = {} THEN Undefined
       ELSE res[CHOOSE n \in hits : \A m \in hits : n <= m]

\* this.#joins.map((j, i) => join[j.as] = ...), for one local record
RECURSIVE joinItem(_, _, _, _)
joinItem(join, cs, joins, i) ==
    IF i > Len(joins) THEN join
    ELSE joinItem(Put(join, AsKey(joins[i]),
                      ArrayFind(cursorResults(cs[joins[i].cursor]), join, joins[i])),
                  cs, joins, i + 1)

\* createJoin() keeping only the records every join found a record for
createJoinMatched(cs, items, c) ==
    LET started == startJoins(cs, items, cs[c].results, cs[c].joins, 1)
        joined == [n \in 1..Len(cs[c].results) |->
                      joinItem(cs[c].results[n], started, cs[c].joins, 1)]
        matched == SelectSeq(joined, LAMBDA join :
                       \A i \in 1..Len(cs[c].joins) :
                           Prop(join, AsKey(cs[c].joins[i])) # Undefined)
    IN [started EXCEPT ![c].joinedResults = @ \o matched]

\* createJoin() of cursor c: the cursors after it; when the await is
\* rejected the second loop does not run
createJoin(cs, items, c) ==
    LET started == startJoins(cs, items, cs[c].results, cs[c].joins, 1)
        joined == [n \in 1..Len(cs[c].results) |->
                      joinItem(cs[c].results[n], started, cs[c].joins, 1)]
    IN IF startJoinsThrows(cs, items, cs[c].results, cs[c].joins, 1) THEN started
       ELSE [started EXCEPT ![c].joinedResults = @ \o joined]

\* exec() of cursor c, whose foreign cursors have no joins of their own
exec(cs, items, c) ==
    LET found == [cs EXCEPT ![c] = execFind(@, items[c])]
    IN IF findThrows(cs[c].query, items[c], cs[c].options) THEN cs
       ELSE IF Len(cs[c].joins) > 0 THEN createJoin(found, items, c) ELSE found

\* exec() of cursor c is rejected: its own find is, or its createJoin
execThrows(cs, items, c) ==
    \/ findThrows(cs[c].query, items[c], cs[c].options)
    \/ /\ Len(cs[c].joins) > 0
       /\ LET found == [cs EXCEPT ![c] = execFind(@, items[c])]
          IN startJoinsThrows(found, items, found[c].results, found[c].joins, 1)

----------------------------------------------------------------------------
(* A local cursor configured and executed by its caller, with two foreign cursors *)

MaxJoins == 2
MaxExecs == 2
MaxConfigs == 2

L(id, fk) == Obj((K("_id") :> id) @@ (K("fk") :> fk))
F(id, name) == Obj((K("_id") :> id) @@ (K("name") :> Str(name)))

\* the record sequences behind the local and the foreign cursors
Backings ==
    {[local |-> <<L(Num(1), Num(10))>>,
      foreign |-> <<F(Num(10), "x")>>,
      other |-> <<F(Num(10), "o")>>],
     [local |-> <<L(Num(1), Num(0)), L(Num(2), Num(10))>>,
      foreign |-> <<F(Num(0), "y"), F(Num(10), "x"), F(Num(10), "w")>>,
      other |-> <<F(Num(10), "o"), F(Num(2), "p")>>],
     [local |-> <<L(Num(1), Str("")), L(Num(2), Str("k")), L(Num(3), Num(7))>>,
      foreign |-> <<F(Str(""), "e"), F(Str("k"), "s")>>,
      other |-> <<F(Num(7), "o")>>]}

CursorQueries == {EmptyObj, Obj(K("_id") :> Num(1)), Obj(K("_id") :> Obj(K("$gt") :> Num(5)))}

\* the foreign cursors as their creator configured them: the second one with
\* a query that any record passes, or with one whose $in operand is no list
ForeignCursors ==
    {[foreign |-> NewCursor(EmptyObj),
      other |-> NewCursor(Obj(K("name") :> Obj(K("$in") :> Num(1))))],
     [foreign |-> [NewCursor(Obj(K("name") :> Obj(K("$ne") :> Str("x"))))
                      EXCEPT !.options.reverse = Bool(TRUE)],
      other |-> NewCursor(EmptyObj)]}

MixQueries == {Obj(K("fk") :> Num(10))}

JoinSpecs ==
    {[cursor |-> "foreign", where |-> <<"fk", "_id">>, as |-> Str("owner")],
     [cursor |-> "foreign", where |-> <<"_id", "_id">>, as |-> Str("z")],
     [cursor |-> "foreign", where |-> <<"fk", "_id">>, as |-> Undefined],
     [cursor |-> "other", where |-> <<"fk", "_id">>, as |-> Str("b")]}

CursorProjections == {EmptyObj, Obj(K("fk") :> Bool(FALSE))}

CursorInit ==
    /\ cItems \in Backings
    /\ \E f \in ForeignCursors :
          cursors = [local |-> NewCursor(EmptyObj), foreign |-> f.foreign, other |-> f.other]
    /\ cPhase = "configured"
    /\ cExecs = 0
    /\ cConfigs = 0
    /\ cOut = <<>>
    /\ cPrevOut = <<>>

CursorIdle ==
    /\ cItems = [local |-> <<>>, foreign |-> <<>>, other |-> <<>>]
    /\ cursors = [local |-> NewCursor(EmptyObj), foreign |-> NewCursor(EmptyObj),
                  other |-> NewCursor(EmptyObj)]
    /\ cPhase = "idle" /\ cExecs = 0 /\ cConfigs = 0 /\ cOut = <<>> /\ cPrevOut = <<>>

\* a configuration call leaves the results alone
Configure(cur) ==
    /\ cExecs < MaxExecs
    /\ cConfigs < MaxConfigs
    /\ cursors' = [cursors EXCEPT !["local"] = cur]
    /\ cPhase' = "configured"
    /\ cConfigs' = cConfigs + 1
    /\ UNCHANGED <<cItems, cExecs, cOut, cPrevOut>>

\* query(query)
Query ==
    \E q \in CursorQueries : Configure([cursors["local"] EXCEPT !.query = q])

\* mixQuery(query)
MixQuery ==
    \E q \in MixQueries : Configure([cursors["local"] EXCEPT !.query = Spread(@, q)])

\* skip(amount)
Skip ==
    \E n \in 0..1 : Configure([cursors["local"] EXCEPT !.options.skip = n])

\* limit(amount)
Limit ==
    \E n \in {1, Infinity} : Configure([cursors["local"] EXCEPT !.options.limit = n])

\* reverse(value)
Reverse ==
    \E b \in BOOLEAN : Configure([cursors["local"] EXCEPT !.options.reverse = Bool(b)])

\* join(join)
Join ==
    /\ Len(cursors["local"].joins) < MaxJoins
    /\ \E j \in JoinSpecs : Configure([cursors["local"] EXCEPT !.joins = Append(@, j)])

\* project(projection)
Project ==
    \E p \in CursorProjections : Configure([cursors["local"] EXCEPT !.projection = p])

\* toArray(): exec(), then the results getter; a rejected exec() returns
\* nothing to the caller. No projection of CursorProjections has a dotted
\* key, so project does not call unflatten and the backing records stay as
\* they are
ToArray ==
    /\ cExecs < MaxExecs
    /\ cursors' = exec(cursors, cItems, "local")
    /\ IF execThrows(cursors, cItems, "local")
       THEN /\ cPhase' = "failed"
            /\ UNCHANGED <<cOut, cPrevOut>>
       ELSE /\ cOut' = cursorResults(cursors'["local"])
            /\ cPrevOut' = IF cPhase = "re-executed" \/ cPhase = "executed" THEN cOut ELSE <<>>
            /\ cPhase' = IF cPhase = "re-executed" \/ cPhase = "executed"
                         THEN "re-executed" ELSE "executed"
    /\ cExecs' = cExecs + 1
    /\ cConfigs' = 0
    /\ UNCHANGED cItems

\* C1: executing a cursor again with nothing configured in between returns
\* the same records, with or without joins
C1_Idempotent == cPhase = "re-executed" => cOut = cPrevOut

\* what the local cursor as it is configured produces when executed from
\* empty results
Produced ==
    LET fresh == [cursors EXCEPT !["local"].results = <<>>, !["local"].joinedResults = <<>>]
    IN cursorResults(exec(fresh, cItems, "local")["local"])

\* C8: after a configuration call and a new execution the results hold only
\* records that the new configuration produces
C8_Invalidate ==
    (cPhase = "executed" /\ cExecs >= 2) =>
        \A n \in 1..Len(cOut) : \E m \in 1..Len(Produced) : Produced[m] = cOut[n]

\* the records of a foreign cursor's own query, in its scan order
ForeignScan(c) ==
    LET cur == cursors[c]
        own == Obj([k \in (DOMAIN cur.query.v) \ {K("$intern")} |-> cur.query.v[k]])
    IN ItemsAt(cItems[c], find(own, cItems[c], cur.options))

IsScalar(val) == val.t \in {"number", "string"}

\* C6: the first execution of a cursor with one join gives, for each local
\* result record whose key is a scalar that a foreign record carries, that
\* record with the first such foreign record, in foreign scan order, under
\* the alias
C6_Join ==
    (cPhase = "executed" /\ cExecs = 1 /\ Len(cursors["local"].joins) = 1
        /\ cursors["local"].projection = EmptyObj) =>
        LET j == cursors["local"].joins[1]
            res == cursors["local"].results
        IN /\ Len(cOut) = Len(res)
           /\ \A n \in 1..Len(res) :
                LET key == Prop(res[n], K(j.where[1]))
                    scan == ForeignScan(j.cursor)
                    hits == {m \in 1..Len(scan) :
                                StrictEq(Prop(scan[m], K(j.where[2])), key)}
                IN (IsScalar(key) /\ hits # {}) =>
                      cOut[n] = Put(res[n], AsKey(j),
                                    scan[CHOOSE m \in hits : \A k \in hits : m <= k])

\* C20: a join without "as" puts the foreign record it finds under the
\* join's local field, and adds no other key to the record
C20_AliasDefault ==
    (cPhase = "executed" /\ cExecs = 1 /\ Len(cursors["local"].joins) = 1
        /\ cursors["local"].joins[1].as = Undefined
        /\ cursors["local"].projection = EmptyObj) =>
        LET j == cursors["local"].joins[1]
            res == cursors["local"].results
            found == cursorResults(cursors["foreign"])
        IN /\ Len(cOut) = Len(res)
           /\ \A n \in 1..Len(res) :
                 ArrayFind(found, res[n], j) # Undefined =>
                    cOut[n] = Put(res[n], K(j.where[1]), ArrayFind(found, res[n], j))

\* the local record rec has no record to join in the backing sequence of
\* join j's foreign cursor
NoForeignMatch(rec, j) ==
    \A m \in 1..Len(cItems[j.cursor]) :
        ~StrictEq(Prop(rec, K(j.where[1])), Prop(cItems[j.cursor][m], K(j.where[2])))

\* the aliases of the local cursor's joins
JoinAliases == {AsKey(cursors["local"].joins[i]) : i \in 1..Len(cursors["local"].joins)}

\* C21: the first execution of a cursor with joins gives one joined record
\* for each record of the local scan, in scan order, with the local record's
\* fields and every join's alias, and an alias is undefined when no foreign
\* record has the local record's key
C21_KeepUnmatched ==
    (cPhase = "executed" /\ cExecs = 1 /\ Len(cursors["local"].joins) >= 1) =>
        LET cur == cursors["local"]
            res == cur.results
            out == cur.joinedResults
        IN /\ res = ItemsAt(cItems["local"], find(cur.query, cItems["local"], cur.options))
           /\ Len(out) = Len(res)
           /\ cur.projection = EmptyObj => cOut = out
           /\ \A n \in 1..Len(res) :
                 /\ DOMAIN out[n].v = (DOMAIN res[n].v) \cup JoinAliases
                 /\ \A k \in (DOMAIN res[n].v) \ JoinAliases : out[n].v[k] = res[n].v[k]
                 /\ \A i \in 1..Len(cur.joins) :
                       NoForeignMatch(res[n], cur.joins[i]) =>
                           out[n].v[AsKey(cur.joins[i])] = Undefined

C21_Witness ==
    /\ cPhase = "executed" /\ cExecs = 1 /\ Len(cursors["local"].joins) = 2
    /\ cursors["local"].joins[1].cursor # cursors["local"].joins[2].cursor
    /\ Len(cOut) = 3
    /\ \E n \in 1..3 : \E i \in 1..2 :
          /\ NoForeignMatch(cursors["local"].results[n], cursors["local"].joins[i])
          /\ Prop(cOut[n], AsKey(cursors["local"].joins[i])) = Undefined
    /\ \E n \in 1..3 : Prop(cOut[n], K("owner")).t = "Object"

\* what a cursor is configured with
CursorSpec(cur) == [query |-> cur.query, options |-> cur.options, projection |-> cur.projection]

\* what a cursor returns when it is executed on its own
OwnRecords(cur, items) ==
    IF findThrows(cur.query, items, cur.options) THEN <<"TypeError">>
    ELSE ItemsAt(items, find(cur.query, items, cur.options))

\* C22: no step of the local cursor changes what a foreign cursor is
\* configured with, nor the records the foreign cursor returns on its own
C22_ForeignSpecKept ==
    [][\A c \in {"foreign", "other"} :
          /\ CursorSpec(cursors'[c]) = CursorSpec(cursors[c])
          /\ OwnRecords(cursors'[c], cItems'[c]) = OwnRecords(cursors[c], cItems[c])]_vars

\* the record join j attaches to the local record rec on its own: the first
\* record of the foreign cursor's own scan that carries rec's key
Correlated(rec, j) ==
    LET scan == ForeignScan(j.cursor)
        hits == {m \in 1..Len(scan) :
                    StrictEq(Prop(scan[m], K(j.where[2])), Prop(rec, K(j.where[1])))}
    IN IF hits = {} THEN Undefined
       ELSE scan[CHOOSE m \in hits : \A k \in hits : m <= k]

\* C23: the first execution of a cursor with two joins under different
\* aliases gives every local record, under each alias, the record that join
\* attaches on its own, whenever the local key is a truthy scalar that a
\* foreign record carries
C23_Independent ==
    (cPhase = "executed" /\ cExecs = 1 /\ Len(cursors["local"].joins) = 2
        /\ cursors["local"].projection = EmptyObj
        /\ \A i \in 1..2 : cursors["local"].joins[i].as # Undefined
        /\ cursors["local"].joins[1].as # cursors["local"].joins[2].as) =>
        LET res == cursors["local"].results
        IN \A n \in 1..Len(res) : \A i \in 1..2 :
              LET j == cursors["local"].joins[i]
                  key == Prop(res[n], K(j.where[1]))
              IN (IsScalar(key) /\ Truthy(key) /\ Correlated(res[n], j) # Undefined) =>
                    Prop(cOut[n], AsKey(j)) = Correlated(res[n], j)

\* the execution of join j's foreign cursor fails: its find raises an error
\* on the foreign cursor's query with the join's restriction
JoinFails(j) ==
    LET cur == cursors["local"]
        res == ItemsAt(cItems["local"], find(cur.query, cItems["local"], cur.options))
    IN findThrows(mixJoin(cursors[j.cursor], res, j).query, cItems[j.cursor],
                  cursors[j.cursor].options)

\* a record that carries the aliases of some of the local cursor's joins only
PartiallyJoined(rec) ==
    LET got == (DOMAIN rec.v) \cap JoinAliases
    IN got # {} /\ got # JoinAliases

\* C24: an execution during which the execution of a join's foreign cursor
\* fails is a failed execution that returns nothing, and after it the
\* cursor's results hold no record that carries only some of the joins
C24_Abort ==
    [][(cExecs' = cExecs + 1
          /\ \E i \in 1..Len(cursors["local"].joins) : JoinFails(cursors["local"].joins[i])) =>
             /\ cPhase' = "failed"
             /\ cOut' = cOut
             /\ LET exposed == cursorResults(cursors'["local"])
                IN \A n \in 1..Len(exposed) : ~PartiallyJoined(exposed[n])]_vars

----------------------------------------------------------------------------
(* schema.js: Schema *)

\* the schema the store is configured with: _id declares no bounds, a
\* declares the bounds 0 and 2
SchemaConfig ==
    (K("_id") :> [type |-> "number", minimum |-> Undefined, maximum |-> Undefined,
                  default |-> Undefined])
        @@ (K("a") :> [type |-> "number", minimum |-> Num(0), maximum |-> Num(2),
                       default |-> Num(1)])

\* get defaults()
schemaDefaults ==
    Obj([key \in {k \in DOMAIN SchemaConfig : Truthy(SchemaConfig[k].default)} |->
            SchemaConfig[key].default])

\* /\.|\ |\$/.test(key) === false
FieldNameOk(key) ==
    /\ Len(key) = 1
    /\ \A i \in 1..Len(key[1]) : SubSeq(key[1], i, i) \notin {" ", "$"}

\* the body of oKeys.map in test for one key: the failed assertion, "null"
\* when none fails, and iSize, which the keys of an item share
schemaTestKey(item, key, iSize) ==
    LET property == Prop(item, key)
        known == key \in DOMAIN SchemaConfig
        sKey == SchemaConfig[key]
        size == IF known /\ sKey.type \in {"string", "number"} THEN LengthOf(property)
                ELSE iSize
    IN [iSize |-> size,
        error |->
            IF ~FieldNameOk(key) THEN "FIELD_NAME"
            ELSE IF ~known THEN "UKEY"
            ELSE IF sKey.type # getType(property) THEN "TYPE"
            ELSE IF Truthy(sKey.minimum) /\ ~JsLessEq(sKey.minimum, size) THEN "SIZE_SMALL"
            ELSE IF Truthy(sKey.maximum) /\ ~JsLessEq(size, sKey.maximum) THEN "SIZE_BIG"
            ELSE "null"]

RECURSIVE schemaTestKeys(_, _, _)
schemaTestKeys(item, keys, iSize) ==
    IF keys = <<>> THEN "null"
    ELSE LET r == schemaTestKey(item, Head(keys), iSize)
         IN IF r.error # "null" THEN r.error ELSE schemaTestKeys(item, Tail(keys), r.iSize)

\* test(items): the error of the first assertion that fails, "null" when
\* every item passes (the items are returned as they are)
RECURSIVE schemaTest(_)
schemaTest(items) ==
    IF items = <<>> THEN "null"
    ELSE LET e == schemaTestKeys(Head(items), OrderedKeys(Head(items)), Undefined)
         IN IF e # "null" THEN e ELSE schemaTest(Tail(items))

----------------------------------------------------------------------------
(* mango-db.js: MangoDB *)

Range(f) == {f[x] : x \in DOMAIN f}

\* nothing is a duplicate
insertDupeNever(iKeys) == FALSE

\* new Set(iKeys).size !== iKeys.length
insertDupe(iKeys) == Cardinality(Range(iKeys)) # Len(iKeys)

\* this.#events.trigger(name, ...): the event, with the records stored at
\* the moment it is triggered
trigger(name, store) == [name |-> name, data |-> store]

\* insert(...items) that stores the first item before it looks at the rest
insertPartial(store, items) ==
    LET mixed == [n \in 1..Len(items) |-> Spread(schemaDefaults, items[n])]
        iKeys == [n \in 1..Len(store) |-> Prop(store[n], K("_id"))]
                    \o [n \in 1..Len(mixed) |-> Prop(mixed[n], K("_id"))]
        error == IF \E n \in 1..Len(mixed) : ~Truthy(Prop(mixed[n], K("_id"))) THEN "MISS_PK"
                 ELSE IF insertDupe(iKeys) THEN "PK_DUPES"
                 ELSE schemaTest(mixed)
        first == IF mixed # <<>> /\ Truthy(Prop(mixed[1], K("_id")))
                       /\ ~insertDupe(SubSeq(iKeys, 1, Len(store) + 1))
                       /\ schemaTest(<<mixed[1]>>) = "null"
                 THEN <<mixed[1]>> ELSE <<>>
    IN IF error = "null"
       THEN [error |-> "null", items |-> mixed, data |-> store \o mixed,
             events |-> <<trigger("insert", store \o mixed)>>]
       ELSE [error |-> error, items |-> <<>>, data |-> store \o first,
             events |-> <<trigger("error", store)>>]

\* insert(...items) that triggers its event before it stores the items
insertTriggerFirst(store, items) ==
    LET mixed == [n \in 1..Len(items) |-> Spread(schemaDefaults, items[n])]
        iKeys == [n \in 1..Len(store) |-> Prop(store[n], K("_id"))]
                    \o [n \in 1..Len(mixed) |-> Prop(mixed[n], K("_id"))]
        error == IF \E n \in 1..Len(mixed) : ~Truthy(Prop(mixed[n], K("_id"))) THEN "MISS_PK"
                 ELSE IF insertDupe(iKeys) THEN "PK_DUPES"
                 ELSE schemaTest(mixed)
    IN IF error = "null"
       THEN [error |-> "null", items |-> mixed, data |-> store \o mixed,
             events |-> <<trigger("insert", store)>>]
       ELSE [error |-> error, items |-> <<>>, data |-> store,
             events |-> <<trigger("error", store)>>]

\* insert(...items): the error, "null" when the items are stored, the
\* records after the call, and the events triggered
insert(store, items) ==
    LET mixed == [n \in 1..Len(items) |-> Spread(schemaDefaults, items[n])]
        iKeys == [n \in 1..Len(store) |-> Prop(store[n], K("_id"))]
                    \o [n \in 1..Len(mixed) |-> Prop(mixed[n], K("_id"))]
        error == IF \E n \in 1..Len(mixed) : ~Truthy(Prop(mixed[n], K("_id"))) THEN "MISS_PK"
                 ELSE IF insertDupe(iKeys) THEN "PK_DUPES"
                 ELSE schemaTest(mixed)
    IN IF error = "null"
       THEN [error |-> "null", items |-> mixed, data |-> store \o mixed,
             events |-> <<trigger("insert", store \o mixed)>>]
       ELSE [error |-> error, items |-> <<>>, data |-> store,
             events |-> <<trigger("error", store)>>]

\* insert(...items) up to its await: the items with the defaults, the error
\* of a failed assertion, and the result of schema.test the call is
\* suspended on
insertBegin(store, items) ==
    LET mixed == [n \in 1..Len(items) |-> Spread(schemaDefaults, items[n])]
        iKeys == [n \in 1..Len(store) |-> Prop(store[n], K("_id"))]
                    \o [n \in 1..Len(mixed) |-> Prop(mixed[n], K("_id"))]
    IN [items |-> mixed,
        error |-> IF \E n \in 1..Len(mixed) : ~Truthy(Prop(mixed[n], K("_id")))
                  THEN "MISS_PK"
                  ELSE IF insertDupe(iKeys) THEN "PK_DUPES" ELSE "null",
        res |-> schemaTest(mixed)]

\* insert(...items) after its await: the error of the schema, or the push
insertEnd(store, begun) ==
    IF begun.res = "null"
    THEN [error |-> "null", data |-> store \o begun.items]
    ELSE [error |-> begun.res, data |-> store]

\* find(query).exec().pointer and find(query).limit(1).exec().pointer: the
\* positions in the store of the records found
pointer(store, query, limit) ==
    find(query, store, [skip |-> 0, limit |-> limit, reverse |-> Bool(FALSE)])

\* update(items, update) that writes the n-th updated record at position n
updateAtHead(store, positions, upd) ==
    LET mixins == [n \in 1..Len(positions) |-> Spread(store[positions[n]], upd)]
        error == IF Prop(upd, K("_id")) # Undefined THEN "PK_UP" ELSE schemaTest(mixins)
    IN IF error = "null"
       THEN [error |-> "null", items |-> mixins,
             data |-> [i \in 1..Len(store) |->
                          IF i <= Len(positions) THEN mixins[i] ELSE store[i]],
             events |-> <<>>]
       ELSE [error |-> error, items |-> <<>>, data |-> store, events |-> <<>>]

\* update(items, update), items given by their positions in the store
update(store, positions, upd) ==
    LET mixins == [n \in 1..Len(positions) |-> Spread(store[positions[n]], upd)]
        error == IF Prop(upd, K("_id")) # Undefined THEN "PK_UP" ELSE schemaTest(mixins)
    IN IF error = "null"
       THEN [error |-> "null", items |-> mixins,
             data |-> [i \in 1..Len(store) |->
                          IF \E n \in 1..Len(positions) : positions[n] = i
                          THEN mixins[CHOOSE n \in 1..Len(positions) : positions[n] = i]
                          ELSE store[i]],
             events |-> <<>>]
       ELSE [error |-> error, items |-> <<>>, data |-> store, events |-> <<>>]

\* delete(items) that splices at index -1, the last record, for every item
deleteLast(store, positions) ==
    [error |-> "null",
     items |-> ItemsAt(store, positions),
     data |-> SelectSeq([i \in 1..Len(store) |-> [at |-> i, item |-> store[i]]],
                        LAMBDA e : e.at <= Len(store) - Len(positions)),
     events |-> <<>>]

\* delete(items), items given by their positions in the store
delete(store, positions) ==
    [error |-> "null",
     items |-> ItemsAt(store, positions),
     data |-> SelectSeq([i \in 1..Len(store) |-> [at |-> i, item |-> store[i]]],
                        LAMBDA e : \A n \in 1..Len(positions) : positions[n] # e.at),
     events |-> <<>>]

Stored(entries) == [n \in 1..Len(entries) |-> entries[n].item]

\* assert(results.length ..., ERR.NO_ITEMS) of a public method fails
noItems(store) == [error |-> "NO_ITEMS", items |-> <<>>, data |-> store, events |-> <<>>]

\* the end of a public update or delete method: after the private method
\* has returned without error it triggers its event, and its catch triggers
\* "error"
triggered(name, r) ==
    [r EXCEPT !.events = IF r.error = "null" THEN <<trigger(name, r.data)>>
                         ELSE <<trigger("error", r.data)>>]

----------------------------------------------------------------------------
(* One MangoDB and its caller, who awaits every call before the next *)

MaxData == 3
MaxBatch == 2

ItemInputs ==
    {Obj(K("_id") :> Num(1)), Obj(K("_id") :> Num(3)),
     Obj((K("_id") :> Num(2)) @@ (K("a") :> Num(2))),
     Obj((K("_id") :> Num(3)) @@ (K("a") :> Num(3))),
     Obj((K("_id") :> Num(2)) @@ (K("a") :> Num(-1))),
     Obj(K("_id") :> Num(0)), Obj(K("a") :> Num(1)), Obj(K("_id") :> Str("s"))}

UpdateInputs ==
    {Obj(K("a") :> Num(2)), Obj(K("a") :> Num(3)), Obj(K("_id") :> Num(2)),
     Obj(K("_id") :> Undefined), Obj(K("b") :> Num(1)), EmptyObj}

DbQueries ==
    {EmptyObj, Obj(K("_id") :> Num(1)), Obj(K("a") :> Obj(K("$lt") :> Num(2))),
     Obj(K("_id") :> Num(5))}

DbInit ==
    /\ data = <<>>
    /\ dbRes = [op |-> "new", query |-> Undefined, error |-> "null", items |-> <<>>,
                rejected |-> FALSE, events |-> <<>>, given |-> Undefined]

DbIdle ==
    /\ data = <<>>
    /\ dbRes = [op |-> "idle", query |-> Undefined, error |-> "null", items |-> <<>>,
                rejected |-> FALSE, events |-> <<>>, given |-> Undefined]

\* what a call leaves: the records, and for its caller the query and the
\* items or the update it was given, the result it resolved to or its
\* rejection, and the events it triggered
Outcome(op, query, given, r) ==
    /\ data' = r.data
    /\ dbRes' = [op |-> op, query |-> query, error |-> r.error, items |-> r.items,
                 rejected |-> r.error = "TypeError", events |-> r.events,
                 given |-> given]

\* insertOne(item): insert.items[0] of a failed insert, whose items are null,
\* is a TypeError that rejects the call
InsertOne ==
    \E item \in ItemInputs :
        /\ Len(data) + 1 <= MaxData
        /\ LET r == insert(data, <<item>>)
           IN Outcome("insertOne", Undefined, Arr(<<item>>),
                      IF r.error = "null" THEN r ELSE [r EXCEPT !.error = "TypeError"])

\* insertMany(items): insert(...items)
InsertMany ==
    \E items \in SeqsUpTo(ItemInputs, MaxBatch) :
        /\ Len(data) + Len(items) <= MaxData
        /\ Outcome("insertMany", Undefined, Arr(items), insert(data, items))

\* updateOne(query, update)
UpdateOne ==
    \E query \in DbQueries, upd \in UpdateInputs :
        LET results == pointer(data, query, 1)
        IN Outcome("updateOne", query, upd,
                   triggered("update", IF Len(results) > 0 THEN update(data, results, upd)
                                       ELSE noItems(data)))

\* updateMany(query, update)
UpdateMany ==
    \E query \in DbQueries, upd \in UpdateInputs :
        LET results == pointer(data, query, Infinity)
        IN Outcome("updateMany", query, upd,
                   triggered("update", IF Len(results) > 0 THEN update(data, results, upd)
                                       ELSE noItems(data)))

\* deleteOne(query)
DeleteOne ==
    \E query \in DbQueries :
        LET results == pointer(data, query, 1)
            r == delete(data, results)
        IN Outcome("deleteOne", query, Undefined,
                   triggered("delete", IF Len(results) = 1 THEN [r EXCEPT !.data = Stored(@)]
                                       ELSE noItems(data)))

\* deleteMany(query): it goes on only when results.length === 0
DeleteMany ==
    \E query \in DbQueries :
        LET results == pointer(data, query, Infinity)
            r == delete(data, results)
        IN Outcome("deleteMany", query, Undefined,
                   triggered("delete", IF Len(results) = 0 THEN [r EXCEPT !.data = Stored(@)]
                                       ELSE noItems(data)))

\* C7: no two stored records have the same _id, and every stored record has
\* a truthy _id
C7_PrimaryKey ==
    /\ \A i, j \in 1..Len(data) :
          i # j => Prop(data[i], K("_id")) # Prop(data[j], K("_id"))
    /\ \A i \in 1..Len(data) : Truthy(Prop(data[i], K("_id")))

\* a declared bound holds for a value of the declared type: of its length
\* when it is a string, of itself when it is a number
WithinBounds(sKey, val) ==
    /\ sKey.minimum # Undefined => JsLessEq(sKey.minimum, LengthOf(val))
    /\ sKey.maximum # Undefined => JsLessEq(LengthOf(val), sKey.maximum)

\* C26: every stored record has only fields the schema declares, of the
\* declared type, and within the declared bounds, a bound of 0 included
C26_Conformance ==
    \A i \in 1..Len(data) : \A key \in DOMAIN data[i].v :
        /\ key \in DOMAIN SchemaConfig
        /\ getType(data[i].v[key]) = SchemaConfig[key].type
        /\ WithinBounds(SchemaConfig[key], data[i].v[key])

\* records are stored, and an insert of a record whose _id is stored already
\* has been refused
C7_Witness ==
    /\ Len(data) >= 2
    /\ dbRes.op = "insertMany" /\ dbRes.error = "PK_DUPES"

\* C27: a deleteMany call removes the records that match its query and no
\* others, keeps the order of the rest, and resolves to the removed records
\* with error null
C27_DeleteMany ==
    [][dbRes'.op = "deleteMany" =>
          LET q == dbRes'.query
              Hit(rec) == match(q, rec, ObjectKeys(q))
              Miss(rec) == ~match(q, rec, ObjectKeys(q))
          IN /\ data' = SelectSeq(data, Miss)
             /\ dbRes'.items = SelectSeq(data, Hit)
             /\ dbRes'.error = "null"]_vars

\* C28: insertOne and insertMany are never rejected, and an insert that
\* fails resolves to an error and no items
C28_InsertResolves ==
    dbRes.op \in {"insertOne", "insertMany"} =>
        /\ ~dbRes.rejected
        /\ dbRes.error # "null" => dbRes.items = <<>>

\* the event a call triggers when it succeeds
OwnEvent(op) ==
    CASE op \in {"insertOne", "insertMany"} -> "insert"
      [] op \in {"updateOne", "updateMany"} -> "update"
      [] op \in {"deleteOne", "deleteMany"} -> "delete"

\* C29: a call that succeeds triggers one event, of its own name, when the
\* records are already as the call leaves them; a call that fails triggers
\* one event, "error", and leaves the records as they were
C29_Events ==
    [][LET ev == dbRes'.events
       IN /\ Len(ev) = 1
          /\ IF dbRes'.error = "null"
             THEN ev[1].name = OwnEvent(dbRes'.op) /\ ev[1].data = data'
             ELSE ev[1].name = "error" /\ data' = data]_vars

\* an insert has stored records and triggered its event, and after it a
\* delete has failed
C29_Witness ==
    /\ Len(data) >= 2
    /\ dbRes.op = "deleteMany" /\ dbRes.error = "NO_ITEMS"
    /\ dbRes.events = <<trigger("error", data)>>

\* C34: a call that ends with an error (a rejected insertOne included)
\* leaves the records as they were; an insert that succeeds has appended
\* every item it was given, and an update that succeeds has replaced every
\* record its query selected
C34_AllOrNothing ==
    [][LET r == dbRes'
       IN /\ r.error # "null" => data' = data
          /\ (r.error = "null" /\ r.op \in {"insertOne", "insertMany"}) =>
                /\ Len(r.items) = Len(r.given.v)
                /\ data' = data \o r.items
          /\ (r.error = "null" /\ r.op \in {"updateOne", "updateMany"}) =>
                LET selected == pointer(data, r.query,
                                        IF r.op = "updateOne" THEN 1 ELSE Infinity)
                IN /\ Len(r.items) = Len(selected)
                   /\ \A n \in 1..Len(selected) : data'[selected[n]] = r.items[n]]_vars

\* an insertMany of two items, the second of them refused by the schema,
\* has failed on a store that holds a record
C34_Witness ==
    /\ dbRes.op = "insertMany" /\ dbRes.error \notin {"null", "MISS_PK", "PK_DUPES"}
    /\ Len(dbRes.given.v) = 2
    /\ schemaTest(<<Spread(schemaDefaults, dbRes.given.v[1])>>) = "null"
    /\ Len(data) = 1
    /\ Prop(data[1], K("_id")) # Prop(dbRes.given.v[1], K("_id"))

\* the sequence without its element at position i
Without(s, i) == SubSeq(s, 1, i - 1) \o SubSeq(s, i + 1, Len(s))

\* the positions of the records a query matches, in forward order
Matching(store, query) ==
    SelectSeq([i \in 1..Len(store) |-> i],
              LAMBDA i : match(query, store[i], ObjectKeys(query)))

\* C35: an updateOne or updateMany that succeeds keeps the number of
\* records; each record it selected is replaced, at its index, by a record
\* with the same _id in which the fields of the update override the old
\* ones; every other record is unchanged; updateOne selects the first
\* matching record in forward order, updateMany every matching record
C35_UpdateFrame ==
    [][(dbRes'.error = "null" /\ dbRes'.op \in {"updateOne", "updateMany"}) =>
          LET hits == Matching(data, dbRes'.query)
              selected == IF dbRes'.op = "updateOne" THEN {hits[1]} ELSE Range(hits)
          IN /\ hits # <<>>
             /\ Len(data') = Len(data)
             /\ \A i \in 1..Len(data) :
                   /\ Prop(data'[i], K("_id")) = Prop(data[i], K("_id"))
                   /\ data'[i] = IF i \in selected THEN Spread(data[i], dbRes'.given)
                                 ELSE data[i]]_vars

\* an updateOne has changed the first of two matching records, and an
\* updateMany the second and third of three records
C35_Witness ==
    /\ Len(data) = 3 /\ dbRes.error = "null"
    /\ LET hits == Matching(data, dbRes.query)
       IN \/ /\ dbRes.op = "updateOne" /\ Len(hits) >= 2
             /\ Prop(data[hits[1]], K("a")) = Prop(dbRes.given, K("a"))
             /\ Prop(data[hits[2]], K("a")) # Prop(dbRes.given, K("a"))
          \/ /\ dbRes.op = "updateMany" /\ hits = <<2, 3>>
             /\ \A i \in {2, 3} : Prop(data[i], K("a")) = Prop(dbRes.given, K("a"))
             /\ Prop(data[1], K("a")) # Prop(dbRes.given, K("a"))

\* C36: deleteOne removes the first record in forward order that matches
\* its query, and no other, returns it with error null, and keeps the others
\* in their order; when no record matches it returns an error and removes
\* nothing
C36_DeleteOne ==
    [][dbRes'.op = "deleteOne" =>
          LET hits == Matching(data, dbRes'.query)
          IN IF hits = <<>>
             THEN dbRes'.error # "null" /\ dbRes'.items = <<>> /\ data' = data
             ELSE /\ dbRes'.error = "null"
                  /\ dbRes'.items = <<data[hits[1]]>>
                  /\ data' = Without(data, hits[1])]_vars

\* a deleteOne has removed the first of the two records that matched, which
\* was the second of three
C36_Witness ==
    /\ dbRes.op = "deleteOne" /\ dbRes.error = "null" /\ Len(data) = 2
    /\ ~match(dbRes.query, data[1], ObjectKeys(dbRes.query))
    /\ match(dbRes.query, data[2], ObjectKeys(dbRes.query))
    /\ match(dbRes.query, dbRes.items[1], ObjectKeys(dbRes.query))

----------------------------------------------------------------------------
(* One MangoDB and a caller who starts insert calls without awaiting them *)

MaxCalls == 2

OverlapInputs ==
    {Obj(K("_id") :> Num(1)), Obj(K("_id") :> Num(3)),
     Obj((K("_id") :> Num(2)) @@ (K("a") :> Num(2))),
     Obj((K("_id") :> Num(3)) @@ (K("a") :> Num(3))),
     Obj(K("_id") :> Num(0))}

NotStarted == [pc |-> "new", given |-> <<>>, items |-> <<>>, res |-> "null", error |-> "null"]

OverlapInit ==
    /\ oData = <<>>
    /\ oCalls = [c \in 1..MaxCalls |-> NotStarted]
    /\ oQueue = <<>>

OverlapIdle ==
    /\ oData = <<>>
    /\ oCalls = <<>>
    /\ oQueue = <<>>

\* the caller calls insert(...items): the call runs to its await, or to its
\* catch when an assertion fails before
InsertStart(c) ==
    \E items \in SeqsUpTo(OverlapInputs, MaxBatch) :
        /\ oCalls[c].pc = "new"
        /\ \A b \in 1..(c - 1) : oCalls[b].pc # "new"
        /\ LET begun == insertBegin(oData, items)
           IN IF begun.error # "null"
              THEN /\ oCalls' = [oCalls EXCEPT ![c] =
                                    [pc |-> "returned", given |-> items, items |-> <<>>,
                                     res |-> "null", error |-> begun.error]]
                   /\ UNCHANGED oQueue
              ELSE /\ oCalls' = [oCalls EXCEPT ![c] =
                                    [pc |-> "awaiting", given |-> items,
                                     items |-> begun.items, res |-> begun.res,
                                     error |-> "null"]]
                   /\ oQueue' = Append(oQueue, c)
        /\ UNCHANGED oData

\* the continuation of the call that was suspended first runs to its return
InsertResume ==
    /\ oQueue # <<>>
    /\ LET c == Head(oQueue)
           ended == insertEnd(oData, oCalls[c])
       IN /\ oData' = ended.data
          /\ oCalls' = [oCalls EXCEPT ![c].pc = "returned", ![c].error = ended.error]
    /\ oQueue' = Tail(oQueue)

InsertStarts == \E c \in 1..MaxCalls : InsertStart(c)

\* C33: no two stored records have the same _id, also when an insert call
\* is started while another is suspended at its await
C33_OverlapUnique ==
    \A i, j \in 1..Len(oData) :
        i # j => Prop(oData[i], K("_id")) # Prop(oData[j], K("_id"))

----------------------------------------------------------------------------
(* stream.js, and serialize, deserialize and find of MangoDB *)

\* CBOR.encode(data) and CBOR.decode(buffer): the bytes stand for the
\* records they encode
CBORencode(records) == [cbor |-> records]
CBORdecode(bytes) == bytes.cbor

\* the events of the stream fs.createWriteStream(path) returns, after
\* stream.write(serialization) and no stream.end(): "finish" follows end()
\* only; a stream that fails emits "error"
StreamEvents(fault) == IF fault THEN <<"error", "close">> ELSE <<"open", "ready">>

\* the handlers serialize registers on the stream, and what MangoDB.serialize
\* does once the promise is settled: "finish" resolves it with null, the call
\* triggers "serialize" and returns true; "error" rejects it, the catch
\* triggers "error" and returns false
streamOn(write, ev) ==
    CASE ev = "finish" /\ write.pc = "pending" ->
            [write EXCEPT !.pc = "true", !.event = "serialize"]
      [] ev = "error" /\ write.pc = "pending" ->
            [write EXCEPT !.pc = "false", !.event = "error"]
      [] OTHER -> write

\* MangoDB.serialize() up to its await: without name or path the assertion
\* fails and the call returns false; otherwise the records are encoded, the
\* stream is opened and written to, and the call is suspended
serializeBegin(configured, records, fault) ==
    IF ~configured
    THEN [pc |-> "false", event |-> "error", fault |-> FALSE, emitted |-> 0,
          bytes |-> CBORencode(<<>>)]
    ELSE [pc |-> "pending", event |-> "none", fault |-> fault, emitted |-> 0,
          bytes |-> CBORencode(records)]

\* MangoDB.deserialize(): the records #data names after it, whether that is
\* a new array, and what the call returns; the read stream ends, or fails
\* when there is no file
deserialize(configured, file, records) ==
    IF configured /\ file # <<>>
    THEN [ok |-> TRUE, data |-> CBORdecode(file[1]), replaced |-> TRUE]
    ELSE [ok |-> FALSE, data |-> records, replaced |-> FALSE]

\* new Cursor(query || {}, this.#data): the cursor holds the array #data
\* names at that moment
storeFind(query, records) ==
    [made |-> TRUE, query |-> query, items |-> records, current |-> TRUE]

\* (await cursor.exec()).results of a cursor without joins or projection
storeExec(cursor) ==
    ItemsAt(cursor.items,
            find(cursor.query, cursor.items,
                 [skip |-> 0, limit |-> Infinity, reverse |-> Bool(FALSE)]))

\* what the cursor holds after #data was changed in place, and after it was
\* assigned a new array
heldBy(cursor, records, replaced) ==
    IF replaced THEN [cursor EXCEPT !.current = FALSE]
    ELSE IF cursor.current THEN [cursor EXCEPT !.items = records]
    ELSE cursor

----------------------------------------------------------------------------
(* One MangoDB, its file, a cursor, and a caller who awaits every call but   *)
(* serialize                                                                 *)

MaxStored == 2

StoreInputs == {Obj(K("_id") :> Num(1)), Obj(K("_id") :> Num(3))}

StoreQueries == {EmptyObj, Obj(K("_id") :> Num(1))}

StoreUpdate == Obj(K("a") :> Num(2))

NoCursor == [made |-> FALSE, query |-> EmptyObj, items |-> <<>>, current |-> FALSE]

NoWrite ==
    [pc |-> "none", event |-> "none", fault |-> FALSE, emitted |-> 0,
     bytes |-> CBORencode(<<>>)]

StoreInit ==
    /\ stData = <<>>
    /\ stCursor = NoCursor
    /\ stFile = <<>>
    /\ stConfigured \in BOOLEAN
    /\ stWrite = NoWrite
    /\ stRes = [op |-> "new", out |-> <<>>]

StoreIdle ==
    /\ stData = <<>>
    /\ stCursor = NoCursor
    /\ stFile = <<>>
    /\ stConfigured = FALSE
    /\ stWrite = NoWrite
    /\ stRes = [op |-> "idle", out |-> <<>>]

\* a call that changes #data in place, or assigns it
Changed(op, records, replaced) ==
    /\ stData' = records
    /\ stCursor' = heldBy(stCursor, records, replaced)
    /\ stRes' = [op |-> op, out |-> <<>>]
    /\ UNCHANGED <<stFile, stConfigured, stWrite>>

\* insertOne(item)
StoreInsert ==
    \E item \in StoreInputs :
        /\ Len(stData) < MaxStored
        /\ Changed("insertOne", insert(stData, <<item>>).data, FALSE)

\* updateOne(query, update)
StoreUpdateOne ==
    \E query \in StoreQueries :
        LET results == pointer(stData, query, 1)
        IN Changed("updateOne",
                   IF Len(results) > 0 THEN update(stData, results, StoreUpdate).data
                   ELSE stData,
                   FALSE)

\* deleteOne(query)
StoreDeleteOne ==
    \E query \in StoreQueries :
        LET results == pointer(stData, query, 1)
        IN Changed("deleteOne",
                   IF Len(results) = 1 THEN Stored(delete(stData, results).data)
                   ELSE stData,
                   FALSE)

\* deserialize()
Deserialize ==
    LET r == deserialize(stConfigured, stFile, stData)
    IN Changed(IF r.ok THEN "deserialize" ELSE "deserialize failed", r.data, r.replaced)

\* find(query)
StoreFind ==
    \E query \in StoreQueries :
        /\ stCursor' = storeFind(query, stData)
        /\ stRes' = [op |-> "find", out |-> <<>>]
        /\ UNCHANGED <<stData, stFile, stConfigured, stWrite>>

\* cursor.toArray() on the cursor got from find
StoreExec ==
    /\ stCursor.made
    /\ stRes' = [op |-> "exec", out |-> storeExec(stCursor)]
    /\ UNCHANGED <<stData, stCursor, stFile, stConfigured, stWrite>>

\* serialize(), when none is in flight; the stream it opens fails or not
Serialize ==
    \E fault \in BOOLEAN :
        /\ stWrite.pc # "pending"
        /\ stWrite' = serializeBegin(stConfigured, stData, fault)
        /\ UNCHANGED <<stData, stCursor, stFile, stConfigured, stRes>>

\* the stream emits its next event and the handlers registered for it run;
\* a stream that opens takes the bytes written to it into the file
StreamEmit ==
    /\ stWrite.pc # "none"
    /\ stWrite.emitted < Len(StreamEvents(stWrite.fault))
    /\ LET ev == StreamEvents(stWrite.fault)[stWrite.emitted + 1]
       IN /\ stWrite' = streamOn([stWrite EXCEPT !.emitted = @ + 1], ev)
          /\ stFile' = IF ev = "open" THEN <<stWrite.bytes>> ELSE stFile
    /\ UNCHANGED <<stData, stCursor, stConfigured, stRes>>

\* C38: an execution of the cursor got from find returns the matches among
\* the records the MangoDB holds at the moment of the execution, whatever
\* insert, update, delete and deserialize calls were made since find
C38_CurrentData ==
    stRes.op = "exec" =>
        stRes.out = ItemsAt(stData, Matching(stData, stCursor.query))

\* C37: a serialize call that is suspended is settled in the end; it returns
\* true, having triggered "serialize", only when its stream did not fail, and
\* false having triggered "error"
C37_SerializeSettles ==
    /\ [](stWrite.pc = "true" => stWrite.event = "serialize" /\ ~stWrite.fault)
    /\ [](stWrite.pc = "false" => stWrite.event = "error")
    /\ (stWrite.pc = "pending") ~> (stWrite.pc \in {"true", "false"})

----------------------------------------------------------------------------
(* src/mango-db.js: the MangoDB that keeps its records in stacks *)

\* get maxStackLength(), scaled down from 4096
maxStackLength == 2

\* the schema of the store: { _id: { type: "number" } }
StackSchema == (K("_id") :> [type |-> "number"])

\* test(items): the error of the first assertion that fails, "null" when
\* every item passes
stackTest(items) ==
    IF \E n \in 1..Len(items) : \E key \in DOMAIN items[n].v : key \notin DOMAIN StackSchema
    THEN "UKEY"
    ELSE IF \E n \in 1..Len(items) : \E key \in DOMAIN items[n].v :
                \/ getType(items[n].v[key]) \in {"Object", "Array"}
                \/ getType(items[n].v[key]) # StackSchema[key].type
    THEN "TYPE"
    ELSE "null"

Last(s) == s[Len(s)]

\* insert(...items) on the stacks; the base is the default () => {}, whose
\* spread adds nothing
stackInsert(stacks, items) ==
    LET lastStack == Len(stacks)
        maxAllowed == maxStackLength - Len(stacks[lastStack])
        iKeys == [n \in 1..Len(items) |-> Prop(items[n], K("_id"))]
        error == IF ~(Len(items) <= maxAllowed) THEN "TMI"
                 ELSE IF \E n \in 1..Len(items) : ~Truthy(iKeys[n]) THEN "MISS_PK"
                 ELSE IF insertDupe(iKeys) THEN "PK_DUPES"
                 ELSE stackTest(items)
    IN IF error # "null" THEN [error |-> error, items |-> <<>>, data |-> stacks]
       ELSE LET pushed == IF Len(stacks[lastStack]) >= maxStackLength
                          THEN Append(stacks, <<>>) ELSE stacks
            IN [error |-> "null", items |-> items,
                data |-> [pushed EXCEPT ![lastStack] = @ \o items]]

\* MangoDB.find(query, item, keys) of src/mango-db.js, for queries without
\* patterns
stackFind(query, item) ==
    \A key \in ObjectKeys(query) : StrictEq(Prop(query, key), Prop(item, key))

\* this.#data.flat(1), each record by its stack and its index there
stackFlat(stacks) ==
    LET Entries(st) == [i \in 1..Len(stacks[st]) |-> [stack |-> st, index |-> i]]
        flatTo[st \in 0..Len(stacks)] ==
            IF st = 0 THEN <<>> ELSE flatTo[st - 1] \o Entries(st)
    IN flatTo[Len(stacks)]

\* deleteOne(query): findOne on the flattened stacks, then the splice of the
\* record found from its stack
stackDeleteOne(stacks, query) ==
    LET hits == SelectSeq(stackFlat(stacks),
                          LAMBDA e : stackFind(query, stacks[e.stack][e.index]))
    IN IF hits = <<>> THEN [error |-> "NO_ITEMS", items |-> <<>>, data |-> stacks]
       ELSE LET e == hits[1]
            IN [error |-> "null", items |-> <<stacks[e.stack][e.index]>>,
                data |-> [stacks EXCEPT ![e.stack] = Without(@, e.index)]]

----------------------------------------------------------------------------
(* One stacked MangoDB and its caller, who awaits every call before the next *)

MaxStacks == 2

StackInputs ==
    {Obj(K("_id") :> Num(1)), Obj(K("_id") :> Num(2)), Obj(K("_id") :> Num(0)),
     Obj(K("_id") :> Str("s")), Obj((K("_id") :> Num(1)) @@ (K("a") :> Num(1)))}

StackQueries == {EmptyObj, Obj(K("_id") :> Num(1)), Obj(K("_id") :> Num(3))}

StackInit ==
    /\ kData = <<<<>>>>
    /\ kRes = [op |-> "new", error |-> "null", items |-> <<>>, given |-> <<>>]

StackIdle ==
    /\ kData = <<>>
    /\ kRes = [op |-> "idle", error |-> "null", items |-> <<>>, given |-> <<>>]

\* insert(...items)
StackInsert ==
    \E items \in SeqsUpTo(StackInputs, MaxBatch) :
        LET r == stackInsert(kData, items)
        IN /\ Len(r.data) <= MaxStacks
           /\ kData' = r.data
           /\ kRes' = [op |-> "insert", error |-> r.error, items |-> r.items,
                       given |-> items]

\* deleteOne(query)
StackDeleteOne ==
    \E query \in StackQueries :
        LET r == stackDeleteOne(kData, query)
        IN /\ kData' = r.data
           /\ kRes' = [op |-> "deleteOne", error |-> r.error, items |-> r.items,
                       given |-> <<>>]

\* items insert accepts when there is room: at most maxStackLength of them,
\* each with a truthy _id of its own, all passing the schema
StackValid(items) ==
    /\ items # <<>> /\ Len(items) <= maxStackLength
    /\ \A n \in 1..Len(items) : Truthy(Prop(items[n], K("_id")))
    /\ ~insertDupe([n \in 1..Len(items) |-> Prop(items[n], K("_id"))])
    /\ stackTest(items) = "null"

\* C39: no stack holds more than maxStackLength records, and an insert of
\* valid items made when the last stack holds maxStackLength records succeeds
\* and stores the items in a new stack, after the stacks there were
C39_RollOver ==
    [][/\ \A st \in 1..Len(kData') : Len(kData'[st]) <= maxStackLength
       /\ (/\ kRes'.op = "insert" /\ StackValid(kRes'.given)
           /\ Len(Last(kData)) = maxStackLength) =>
              /\ kRes'.error = "null"
              /\ kData' = Append(kData, kRes'.given)]_vars

----------------------------------------------------------------------------
(* Specifications: each runs one part of the program and leaves the rest idle *)

notMatchVars == <<scanVars, projectVars, flatVars, cursorVars, dbVars, overlapVars, stackVars, storeVars>>

InitMatch == MatchInit /\ ScanIdle /\ ProjectIdle /\ FlatIdle /\ CursorIdle
    /\ DbIdle /\ OverlapIdle /\ StackIdle /\ StoreIdle
NextMatch == MatchNext /\ UNCHANGED notMatchVars
SpecMatch == InitMatch /\ [][NextMatch]_vars

notScanVars == <<matchVars, projectVars, flatVars, cursorVars, dbVars, overlapVars, stackVars, storeVars>>

InitScan == ScanInit /\ MatchIdle /\ ProjectIdle /\ FlatIdle /\ CursorIdle
    /\ DbIdle /\ OverlapIdle /\ StackIdle /\ StoreIdle
NextScan == ScanNext /\ UNCHANGED notScanVars
SpecScan == InitScan /\ [][NextScan]_vars

notProjectVars == <<matchVars, scanVars, flatVars, cursorVars, dbVars, overlapVars, stackVars, storeVars>>

InitProject == ProjectInit /\ MatchIdle /\ ScanIdle /\ FlatIdle /\ CursorIdle
    /\ DbIdle /\ OverlapIdle /\ StackIdle /\ StoreIdle
NextProject == ProjectCall /\ UNCHANGED notProjectVars
SpecProject == InitProject /\ [][NextProject]_vars

notFlatVars == <<matchVars, scanVars, projectVars, cursorVars, dbVars, overlapVars, stackVars, storeVars>>

InitFlat == FlatInit /\ MatchIdle /\ ScanIdle /\ ProjectIdle /\ CursorIdle
    /\ DbIdle /\ OverlapIdle /\ StackIdle /\ StoreIdle
NextFlat == UnflattenFlat /\ UNCHANGED notFlatVars
SpecFlat == InitFlat /\ [][NextFlat]_vars

notCursorVars == <<matchVars, scanVars, projectVars, flatVars, dbVars, overlapVars, stackVars, storeVars>>

InitCursor == CursorInit /\ MatchIdle /\ ScanIdle /\ ProjectIdle /\ FlatIdle
    /\ DbIdle /\ OverlapIdle /\ StackIdle /\ StoreIdle
NextCursor ==
    \/ Query /\ UNCHANGED notCursorVars
    \/ MixQuery /\ UNCHANGED notCursorVars
    \/ Skip /\ UNCHANGED notCursorVars
    \/ Limit /\ UNCHANGED notCursorVars
    \/ Reverse /\ UNCHANGED notCursorVars
    \/ Join /\ UNCHANGED notCursorVars
    \/ Project /\ UNCHANGED notCursorVars
    \/ ToArray /\ UNCHANGED notCursorVars
SpecCursor == InitCursor /\ [][NextCursor]_vars

notDbVars == <<matchVars, scanVars, projectVars, flatVars, cursorVars, overlapVars, stackVars, storeVars>>

InitDb == DbInit /\ MatchIdle /\ ScanIdle /\ ProjectIdle /\ FlatIdle
    /\ CursorIdle /\ OverlapIdle /\ StackIdle /\ StoreIdle
NextDb ==
    \/ InsertOne /\ UNCHANGED notDbVars
    \/ InsertMany /\ UNCHANGED notDbVars
    \/ UpdateOne /\ UNCHANGED notDbVars
    \/ UpdateMany /\ UNCHANGED notDbVars
    \/ DeleteOne /\ UNCHANGED notDbVars
    \/ DeleteMany /\ UNCHANGED notDbVars
SpecDb == InitDb /\ [][NextDb]_vars

notOverlapVars == <<matchVars, scanVars, projectVars, flatVars, cursorVars, dbVars, stackVars, storeVars>>

InitOverlap == OverlapInit /\ MatchIdle /\ ScanIdle /\ ProjectIdle /\ FlatIdle
    /\ CursorIdle /\ DbIdle /\ StackIdle /\ StoreIdle
NextOverlap ==
    \/ InsertResume /\ UNCHANGED notOverlapVars
    \/ InsertStarts /\ UNCHANGED notOverlapVars
SpecOverlap == InitOverlap /\ [][NextOverlap]_vars

notStackVars == <<matchVars, scanVars, projectVars, flatVars, cursorVars, dbVars, overlapVars, storeVars>>

InitStack == StackInit /\ MatchIdle /\ ScanIdle /\ ProjectIdle /\ FlatIdle
    /\ CursorIdle /\ DbIdle /\ OverlapIdle /\ StoreIdle
NextStack ==
    \/ StackInsert /\ UNCHANGED notStackVars
    \/ StackDeleteOne /\ UNCHANGED notStackVars
SpecStack == InitStack /\ [][NextStack]_vars

notStoreVars == <<matchVars, scanVars, projectVars, flatVars, cursorVars, dbVars, overlapVars, stackVars>>

InitStore == StoreInit /\ MatchIdle /\ ScanIdle /\ ProjectIdle /\ FlatIdle
    /\ CursorIdle /\ DbIdle /\ OverlapIdle /\ StackIdle
NextStore ==
    \/ StoreInsert /\ UNCHANGED notStoreVars
    \/ StoreUpdateOne /\ UNCHANGED notStoreVars
    \/ StoreDeleteOne /\ UNCHANGED notStoreVars
    \/ Deserialize /\ UNCHANGED notStoreVars
    \/ StoreFind /\ UNCHANGED notStoreVars
    \/ StoreExec /\ UNCHANGED notStoreVars
    \/ Serialize /\ UNCHANGED notStoreVars
    \/ StreamEmit /\ UNCHANGED notStoreVars
SpecStore == InitStore /\ [][NextStore]_vars

\* the event loop runs the handlers of every event the stream emits
SpecStoreFair ==
    /\ InitStore /\ [][NextStore]_vars
    /\ WF_vars(StreamEmit /\ UNCHANGED notStoreVars)

====
